---- MODULE Spec2Model ----
(***************************************************************************)
(* Message fan-out and conversation-state engine of the chat backend:      *)
(* the socket handler (socket/socketHandler.js), the message and           *)
(* conversation routes, the access middleware and the behavioural methods  *)
(* of the Conversation and Message models.                                 *)
(*                                                                         *)
(* Every await of a handler is a scheduling point: one action of the model *)
(* is the store operation an await waits for together with the synchronous *)
(* code that runs until the next await is issued.                          *)
(***************************************************************************)
EXTENDS Integers, Sequences, FiniteSets, TLC

\* ------------------------------------------------------------------ bounds
MaxSockets == 2
MaxConvs == 1
MaxUnread == 3
MaxTime == 4

\* ------------------------------------------------------------------ inputs
Users == {"alice", "bob", "carol"}
\* the requests of a behaviour: each is received at most once
Procs == {"p1", "p2"}
ClientIds == {"k1"}
NoUser == ""
NoContent == [text |-> "", media |-> ""]

\* the creator of a conversation and the participant lists of the request body
CreateBodies ==
  { [type |-> "direct", participants |-> <<"bob">>],
    [type |-> "group",  participants |-> <<"bob", "carol">>],
    [type |-> "group",  participants |-> <<"bob", "bob">>] }
Creators == {"alice"}

\* message payloads of the socket event: type may be absent (""), and a
\* client may put a user id of its choice into the payload
SocketPayloads ==
  { [type |-> "",    content |-> [text |-> "hi", media |-> ""], userId |-> "carol"],
    [type |-> "gif", content |-> [text |-> "", media |-> "pic"], userId |-> ""] }

\* bodies of the HTTP send: content is the raw text for a text message
HttpBodies ==
  { [type |-> "text", text |-> "yo", content |-> NoContent, userId |-> "bob"] }

\* ids a request may name: the ids the store can hold and one it never holds
ConvTargets == 1..(MaxConvs + 1)

MessageTypes ==
  {"text", "image", "video", "audio", "file", "location", "contact", "sticker", "system"}

VARIABLES
  conversations,   \* store: id -> Conversation document
  messages,        \* store: id -> Message document
  nextMsg,         \* next message _id handed out by `new Message`
  nextConv,        \* next conversation _id handed out by `new Conversation`
  clock,           \* Date.now()
  sockets,         \* handle -> [user, live, rooms]
  connectedUsers,  \* the connectedUsers Map: user -> socket handle
  isOnline,        \* durable User.isOnline
  userDocs,        \* durable User.blockedUsers and User.blockedBy
  emitted,         \* events handed to socket.io, receivers resolved
  req              \* in-flight requests: position and locals of each handler

vars == <<conversations, messages, nextMsg, nextConv, clock, sockets, connectedUsers,
          isOnline, userDocs, emitted, req>>

\* ------------------------------------------------------------ documents
\* forwardedFrom of a message that is no forward
NoForward == [message |-> 0, user |-> NoUser]

\* blockedUsers and blockedBy of a new user (userSchema defaults)
NoLists == [blockedUsers |-> <<>>, blockedBy |-> <<>>]

NoDoc == [type |-> "none", participants |-> <<>>, lastMessage |-> 0,
          lastMessageAt |-> 0, unreadCount |-> [u \in Users |-> 0],
            mutedBy |-> <<>>]

IdleReq == [pc |-> "idle", kind |-> "", sock |-> 0, user |-> NoUser, conv |-> 0,
            type |-> "", content |-> NoContent, clientId |-> "", msg |-> 0,
            doc |-> NoDoc, doc0 |-> NoDoc, idx |-> 0, status |-> "",
            touched |-> {}, parts |-> <<>>, found |-> <<>>, pushed |-> FALSE,
            ids |-> <<>>, copy |-> 0]

Event(ev, rcpt, user, conv, msg, clientId, reason) ==
  [ev |-> ev, rcpt |-> rcpt, user |-> user, conv |-> conv, msg |-> msg,
   clientId |-> clientId, reason |-> reason]

\* ------------------------------------------------------ membership oracle
IsParticipantNoActive(doc, u) ==
  \E i \in 1..Len(doc.participants) : doc.participants[i].user = u

IsParticipant(doc, u) ==
  \E i \in 1..Len(doc.participants) :
      doc.participants[i].user = u /\ doc.participants[i].isActive

\* Array.prototype.find: index of the first entry of user u, 0 if none
FindParticipant(doc, u) ==
  IF \E i \in 1..Len(doc.participants) : doc.participants[i].user = u
  THEN CHOOSE i \in 1..Len(doc.participants) :
         /\ doc.participants[i].user = u
         /\ \A j \in 1..(i - 1) : doc.participants[j].user # u
  ELSE 0

\* ------------------------------------------------------- socket.io rooms
LiveSockets == {s \in DOMAIN sockets : sockets[s].live}
RoomOf(c) == {s \in LiveSockets : c \in sockets[s].rooms}
UserRoom(u) == {s \in LiveSockets : sockets[s].user = u}

\* --------------------------------------------------------------- initial
Init ==
  /\ conversations = <<>>
  /\ messages = <<>>
  /\ nextMsg = 1
  /\ nextConv = 1
  /\ clock = 1
  /\ sockets = <<>>
  /\ connectedUsers = [u \in {} |-> 0]
  /\ isOnline = [u \in Users |-> FALSE]
  /\ userDocs = [u \in Users |-> NoLists]
  /\ emitted = {}
  /\ req = [p \in Procs |-> IdleReq]

\* requests of conversation c that another actor wrote under
Touch(r, c, actor) ==
  [p \in Procs |->
     IF r[p].pc # "idle" /\ r[p].conv = c /\ p # actor
     THEN [r[p] EXCEPT !.touched = @ \cup {IF actor \in Procs THEN "send" ELSE "other"}]
     ELSE r[p]]

\* ---------------------------------------------------- conversation model
NewParticipant(u, role) ==
  [user |-> u, role |-> role, isActive |-> TRUE]

\* conversationSchema.methods.removeParticipant, on a document; the entry
\* stays, and isActive = FALSE stands for the pair isActive, leftAt
removeParticipant(doc, u) ==
  LET i == FindParticipant(doc, u) IN
  IF i = 0 THEN doc
  ELSE [doc EXCEPT !.participants[i].isActive = FALSE]

\* the default of updateUnreadCount's count parameter
DefaultCount == 1

\* conversationSchema.methods.updateUnreadCount(userId, count)
updateUnreadCount(doc, u, count) ==
  [doc EXCEPT !.unreadCount[u] = doc.unreadCount[u] + count]

\* conversationSchema.methods.resetUnreadCount
resetUnreadCount(doc, u) == [doc EXCEPT !.unreadCount[u] = 0]

\* conversationSchema.statics.findDirectConversation: the query matches a
\* direct conversation that lists both users and has some active entry
findDirectConversation(u1, u2) ==
  LET hits == {c \in DOMAIN conversations :
                 /\ conversations[c].type = "direct"
                 /\ IsParticipantNoActive(conversations[c], u1)
                 /\ IsParticipantNoActive(conversations[c], u2)
                 /\ \E i \in 1..Len(conversations[c].participants) :
                        conversations[c].participants[i].isActive}
  IN IF hits = {} THEN 0 ELSE CHOOSE c \in hits : \A d \in hits : c <= d

\* authorizeConversationAccess: the id is params.conversationId, else
\* body.conversationId; pid is the route parameter that carries it (0: none)
AuthorizedConversation(u, pid, bid) ==
  LET cid == IF pid # 0 THEN pid ELSE bid IN
  IF cid \in DOMAIN conversations /\ IsParticipant(conversations[cid], u)
  THEN cid ELSE 0

\* ------------------------------------------------- conversation routes
\* POST /api/conversations
CreateConversation(u, body) ==
  LET type == body.type
      parts == body.participants
  IN
  /\ IF type = "direct" /\ Len(parts) = 1 /\ findDirectConversation(u, parts[1]) # 0
     THEN UNCHANGED <<conversations, nextConv>>
     ELSE /\ nextConv <= MaxConvs
          /\ conversations' = (nextConv :>
                [type |-> type,
                 participants |-> <<NewParticipant(u, "admin")>> \o
                    [i \in 1..Len(parts) |-> NewParticipant(parts[i], "member")],
                 lastMessage |-> 0,
                 lastMessageAt |-> clock,
                 unreadCount |-> [x \in Users |-> 0],
            mutedBy |-> <<>>]) @@ conversations
          /\ nextConv' = nextConv + 1
  /\ UNCHANGED <<messages, nextMsg, clock, sockets, connectedUsers, isOnline, userDocs,
                 emitted, req>>

\* the route without its test of the target's role
RemoveParticipant_anyTarget(u, bid, target) ==
  LET c == AuthorizedConversation(u, 0, bid) IN
  /\ c # 0
  /\ LET doc == conversations[c]
         up == doc.participants[FindParticipant(doc, u)]
         ti == FindParticipant(doc, target)
     IN /\ ti # 0
        /\ doc.type = "group" => up.role \in {"admin", "moderator"}
        /\ conversations' = [conversations EXCEPT ![c] = removeParticipant(doc, target)]
        /\ req' = Touch(req, c, "other")
  /\ UNCHANGED <<messages, nextMsg, nextConv, clock, sockets, connectedUsers,
                 isOnline, userDocs, emitted>>

\* DELETE /api/conversations/:id/participants/:participantId
\* (the route names its parameter id, so the middleware reads the body's id)
RemoveParticipant(u, bid, target) ==
  LET c == AuthorizedConversation(u, 0, bid) IN
  /\ c # 0
  /\ LET doc == conversations[c]
         up == doc.participants[FindParticipant(doc, u)]
         ti == FindParticipant(doc, target)
     IN /\ ti # 0
        /\ doc.type = "group" =>
             /\ up.role \in {"admin", "moderator"}
             /\ doc.participants[ti].role # "admin"
        /\ conversations' = [conversations EXCEPT ![c] = removeParticipant(doc, target)]
        /\ req' = Touch(req, c, "other")
  /\ UNCHANGED <<messages, nextMsg, nextConv, clock, sockets, connectedUsers,
                 isOnline, userDocs, emitted>>

\* the route without its only-admin test
LeaveConversation_noAdminTest(u, bid) ==
  LET c == AuthorizedConversation(u, 0, bid) IN
  /\ c # 0
  /\ conversations' = [conversations EXCEPT ![c] = removeParticipant(@, u)]
  /\ req' = Touch(req, c, "other")
  /\ UNCHANGED <<messages, nextMsg, nextConv, clock, sockets, connectedUsers,
                 isOnline, userDocs, emitted>>

\* POST /api/conversations/:id/leave
LeaveConversation(u, bid) ==
  LET c == AuthorizedConversation(u, 0, bid) IN
  /\ c # 0
  /\ LET doc == conversations[c]
         up == doc.participants[FindParticipant(doc, u)]
         admins == {i \in 1..Len(doc.participants) : doc.participants[i].role = "admin"}
     IN /\ doc.type = "group" => ~(up.role = "admin" /\ Cardinality(admins) = 1)
        /\ conversations' = [conversations EXCEPT ![c] = removeParticipant(doc, u)]
        /\ req' = Touch(req, c, "other")
  /\ UNCHANGED <<messages, nextMsg, nextConv, clock, sockets, connectedUsers,
                 isOnline, userDocs, emitted>>

\* ------------------------------------------------------------- presence
\* authenticateSocket followed by io.on('connection'); ok: the durable
\* presence write of authenticateSocket succeeded (a rejected write refuses
\* the connection); socket.broadcast reaches the other live connections
Connect(u, ok) ==
  /\ Len(sockets) < MaxSockets
  /\ IF ok
     THEN LET s == Len(sockets) + 1 IN
          /\ isOnline' = [isOnline EXCEPT ![u] = TRUE]
          /\ sockets' = Append(sockets, [user |-> u, live |-> TRUE, rooms |-> {}])
          /\ connectedUsers' = (u :> s) @@ connectedUsers
          /\ emitted' = emitted \cup
                {Event("user:online", LiveSockets, u, 0, 0, "", "")}
     ELSE UNCHANGED <<isOnline, sockets, connectedUsers, emitted>>
  /\ UNCHANGED <<conversations, messages, nextMsg, nextConv, clock, userDocs, req>>

\* socket.on('disconnect'); ok: the durable presence write succeeded
Disconnect(s, ok) ==
  /\ s \in LiveSockets
  /\ LET u == sockets[s].user IN
     /\ sockets' = [sockets EXCEPT ![s].live = FALSE, ![s].rooms = {}]
     /\ connectedUsers' = [x \in DOMAIN connectedUsers \ {u} |-> connectedUsers[x]]
     /\ IF ok
        THEN /\ isOnline' = [isOnline EXCEPT ![u] = FALSE]
             /\ emitted' = emitted \cup
                   {Event("user:offline", LiveSockets \ {s}, u, 0, 0, "", "")}
        ELSE UNCHANGED <<isOnline, emitted>>
  /\ UNCHANGED <<conversations, messages, nextMsg, nextConv, clock, userDocs, req>>

\* the join is let through on any entry of the user, active or not
JoinConversation_anyEntry(s, c) ==
  /\ s \in LiveSockets
  /\ LET u == sockets[s].user IN
     /\ c \in DOMAIN conversations
     /\ IsParticipantNoActive(conversations[c], u)
     /\ sockets' = [sockets EXCEPT ![s].rooms = @ \cup {c}]
     /\ conversations' =
          [conversations EXCEPT ![c] = resetUnreadCount(conversations[c], u)]
     /\ req' = Touch(req, c, "other")
  /\ UNCHANGED <<messages, nextMsg, nextConv, clock, connectedUsers, isOnline,
                 userDocs, emitted>>

\* socket.on('conversation:join')
JoinConversation(s, c) ==
  /\ s \in LiveSockets
  /\ LET u == sockets[s].user IN
     /\ c \in DOMAIN conversations
     /\ IsParticipant(conversations[c], u)
     /\ sockets' = [sockets EXCEPT ![s].rooms = @ \cup {c}]
     /\ conversations' =
          [conversations EXCEPT ![c] = resetUnreadCount(conversations[c], u)]
     /\ req' = Touch(req, c, "other")
  /\ UNCHANGED <<messages, nextMsg, nextConv, clock, connectedUsers, isOnline, userDocs,
                 emitted>>

\* socket.on('conversation:leave')
LeaveRoom(s, c) ==
  /\ s \in LiveSockets
  /\ c \in sockets[s].rooms
  /\ sockets' = [sockets EXCEPT ![s].rooms = @ \ {c}]
  /\ UNCHANGED <<conversations, messages, nextMsg, nextConv, clock,
                 connectedUsers, isOnline, userDocs, emitted, req>>

\* ---------------------------------------------------------- send pipeline
\* the loop condition of the unread and notification loops
IsRecipient(doc, sender, i) ==
  /\ doc.participants[i].user # sender
  /\ doc.participants[i].isActive

\* first entry at or after position from that the loops act on, 0 if none
NextRecipient(doc, sender, from) ==
  LET is == {i \in from..Len(doc.participants) : IsRecipient(doc, sender, i)}
  IN IF is = {} THEN 0 ELSE CHOOSE i \in is : \A j \in is : i <= j

\* message.type || 'text'
TypeOrDefault(t) == IF t = "" THEN "text" ELSE t

\* type === 'text' ? { text: content } : content
HttpContent(body) ==
  IF body.type = "text" THEN [text |-> body.text, media |-> ""] ELSE body.content

\* the Message document built by `new Message({...})`
NewMessage(r) ==
  [conversation |-> r.conv, sender |-> r.user, type |-> r.type,
   content |-> r.content, clientId |-> r.clientId,
   forwardedFrom |-> NoForward, reactions |-> <<>>, readBy |-> <<>>,
   deliveredTo |-> <<>>, isEdited |-> FALSE, editedAt |-> 0,
   isDeleted |-> FALSE, deletedBy |-> NoUser]

\* schema validation run by save()
ValidMessage(r) == r.type \in MessageTypes

\* io.to(room) in place of socket.to(room)
FanOut_wholeRoom(r) ==
  {Event("message:new", RoomOf(r.conv), NoUser, r.conv, r.msg, "", ""),
   Event("message:sent", {r.sock}, NoUser, r.conv, r.msg, r.clientId, "")}
  \cup
  {Event("notification:new", UserRoom(r.doc.participants[i].user),
         r.doc.participants[i].user, r.conv, r.msg, "", "") :
     i \in {j \in 1..Len(r.doc.participants) :
              /\ IsRecipient(r.doc, r.user, j)
              /\ r.doc.participants[j].user \notin DOMAIN connectedUsers}}

\* socket.to(room).emit('message:new'), socket.emit('message:sent') and the
\* notification loop over the loaded participants
FanOut(r) ==
  {Event("message:new", RoomOf(r.conv) \ {r.sock}, NoUser, r.conv, r.msg, "", ""),
   Event("message:sent", {r.sock}, NoUser, r.conv, r.msg, r.clientId, "")}
  \cup
  {Event("notification:new", UserRoom(r.doc.participants[i].user),
         r.doc.participants[i].user, r.conv, r.msg, "", "") :
     i \in {j \in 1..Len(r.doc.participants) :
              /\ IsRecipient(r.doc, r.user, j)
              /\ r.doc.participants[j].user \notin DOMAIN connectedUsers}}

\* what follows the fan-out position of each entry point
Respond(r) == IF r.kind = "sock" THEN FanOut(r) ELSE {}

Started(kind, s, u, c, type, content, k) ==
  [IdleReq EXCEPT !.pc = "saveMsg", !.kind = kind, !.sock = s, !.user = u,
                  !.conv = c, !.type = type, !.content = content,
                  !.clientId = k, !.msg = nextMsg,
                  !.doc = conversations[c], !.doc0 = conversations[c]]

Rejected(kind, s, u, c, status) ==
  [IdleReq EXCEPT !.pc = "done", !.kind = kind, !.sock = s, !.user = u,
                  !.conv = c, !.status = status]

\* the requests are numbered in the order of their arrival
SlotBefore(q, p) == q = "p1" /\ p = "p2"

\* the gate without the isActive test
SendGate_anyEntry(u, c) ==
  IF c \notin DOMAIN conversations THEN "NotFound"
  ELSE IF ~IsParticipantNoActive(conversations[c], u) THEN "Forbidden"
  ELSE "pass"

\* the verdict of the two checks that open both send handlers
SendGate(u, c) ==
  IF c \notin DOMAIN conversations THEN "NotFound"
  ELSE IF ~IsParticipant(conversations[c], u) THEN "Forbidden"
  ELSE "pass"

\* socket.emit('error', { message })
ErrorEvent(s, text) == Event("error", {s}, NoUser, 0, 0, "", text)

GateMessage(verdict) ==
  IF verdict = "NotFound" THEN "Conversation not found"
  ELSE "Not a participant of this conversation"

\* the sender is taken from the payload when the payload names one
SendBegin_trustPayload(p, s, c, payload, k) ==
  /\ req[p].pc = "idle"
  /\ \A q \in Procs : SlotBefore(q, p) => req[q].pc # "idle"
  /\ s \in LiveSockets
  /\ LET u == IF payload.userId # NoUser THEN payload.userId ELSE sockets[s].user
         verdict == SendGate(u, c)
     IN IF verdict # "pass"
        THEN /\ req' = [req EXCEPT ![p] = Rejected("sock", s, u, c, verdict)]
             /\ emitted' = emitted \cup {ErrorEvent(s, GateMessage(verdict))}
             /\ UNCHANGED nextMsg
        ELSE /\ req' = [req EXCEPT ![p] =
                  Started("sock", s, u, c, TypeOrDefault(payload.type),
                          payload.content, k)]
             /\ nextMsg' = nextMsg + 1
             /\ UNCHANGED emitted
  /\ UNCHANGED <<conversations, messages, nextConv, clock, sockets,
                 connectedUsers, isOnline, userDocs>>

\* socket.on('message:send') up to newMessage.save()
SendBegin(p, s, c, payload, k) ==
  /\ req[p].pc = "idle"
  /\ \A q \in Procs : SlotBefore(q, p) => req[q].pc # "idle"
  /\ s \in LiveSockets
  /\ LET u == sockets[s].user
         verdict == SendGate(u, c)
     IN IF verdict # "pass"
        THEN /\ req' = [req EXCEPT ![p] = Rejected("sock", s, u, c, verdict)]
             /\ emitted' = emitted \cup {ErrorEvent(s, GateMessage(verdict))}
             /\ UNCHANGED nextMsg
        ELSE /\ req' = [req EXCEPT ![p] =
                  Started("sock", s, u, c, TypeOrDefault(payload.type),
                          payload.content, k)]
             /\ nextMsg' = nextMsg + 1
             /\ UNCHANGED emitted
  /\ UNCHANGED <<conversations, messages, nextConv, clock, sockets,
                 connectedUsers, isOnline, userDocs>>

\* POST /api/messages/conversations/:conversationId/messages up to message.save()
HttpSendBegin(p, u, c, body, k) ==
  /\ req[p].pc = "idle"
  /\ \A q \in Procs : SlotBefore(q, p) => req[q].pc # "idle"
  /\ LET verdict == SendGate(u, c)
     IN IF verdict # "pass"
        THEN /\ req' = [req EXCEPT ![p] = Rejected("http", 0, u, c, verdict)]
             /\ UNCHANGED nextMsg
        ELSE /\ req' = [req EXCEPT ![p] =
                  Started("http", 0, u, c, body.type, HttpContent(body), k)]
             /\ nextMsg' = nextMsg + 1
  /\ UNCHANGED <<conversations, messages, nextConv, clock, sockets,
                 connectedUsers, isOnline, userDocs, emitted>>

\* a rejected await: the catch block of the socket handler, the error
\* middleware for the route
Fail(p) ==
  /\ req' = [req EXCEPT ![p].pc = "done", ![p].status = "failed", ![p].idx = 0]
  /\ emitted' = IF req[p].kind = "sock"
                THEN emitted \cup {ErrorEvent(req[p].sock, "Failed to send message")}
                ELSE emitted

\* a rejected save() that is not awaited: the handler goes on
SaveMsg_swallow(p, ok) ==
  /\ req[p].pc = "saveMsg"
  /\ IF ok /\ ValidMessage(req[p])
     THEN messages' = (req[p].msg :> NewMessage(req[p])) @@ messages
     ELSE UNCHANGED messages
  /\ req' = [req EXCEPT ![p].pc = "populate"]
  /\ UNCHANGED <<conversations, nextMsg, nextConv, clock, sockets,
                 connectedUsers, isOnline, userDocs, emitted>>

\* await newMessage.save()
SaveMsg(p, ok) ==
  /\ req[p].pc = "saveMsg"
  /\ IF ok /\ ValidMessage(req[p])
     THEN /\ messages' = (req[p].msg :> NewMessage(req[p])) @@ messages
          /\ req' = [req EXCEPT ![p].pc = "populate"]
          /\ UNCHANGED emitted
     ELSE /\ Fail(p)
          /\ UNCHANGED messages
  /\ UNCHANGED <<conversations, nextMsg, nextConv, clock, sockets,
                 connectedUsers, isOnline, userDocs>>

\* await newMessage.populate('sender'); await newMessage.populate('replyTo')
Populate(p, ok) ==
  /\ req[p].pc = "populate"
  /\ IF ok
     THEN /\ req' = [req EXCEPT ![p].pc = "saveConv"]
          /\ UNCHANGED emitted
     ELSE Fail(p)
  /\ UNCHANGED <<conversations, messages, nextMsg, nextConv, clock, sockets,
                 connectedUsers, isOnline, userDocs>>

\* the loop goes on to entry nxt, or the handler runs to its end
Advance(p, r, nxt) ==
  IF nxt # 0
  THEN /\ req' = Touch([req EXCEPT ![p] = [r EXCEPT !.pc = "unread", !.idx = nxt]],
                       r.conv, p)
       /\ UNCHANGED emitted
  ELSE /\ req' = Touch([req EXCEPT ![p] =
                          [r EXCEPT !.pc = "done", !.status = "ok", !.idx = 0]],
                       r.conv, p)
       /\ emitted' = emitted \cup Respond(r)

\* only the timestamp is assigned
SetLastMessage_onlyAt(doc, m, at) == [doc EXCEPT !.lastMessageAt = at]

\* conversation.lastMessage = ...; conversation.lastMessageAt = new Date()
SetLastMessage(doc, m, at) ==
  [doc EXCEPT !.lastMessage = m, !.lastMessageAt = at]

\* await conversation.save(): writes the two modified paths
SaveConv(p, ok) ==
  /\ req[p].pc = "saveConv"
  /\ LET r == req[p] IN
     IF ok /\ r.conv \in DOMAIN conversations
     THEN /\ conversations' = [conversations EXCEPT
                ![r.conv] = SetLastMessage(@, r.msg, clock)]
          /\ clock' = clock + 1
          /\ Advance(p, [r EXCEPT !.doc = SetLastMessage(@, r.msg, clock)],
                     NextRecipient(r.doc, r.user, 1))
     ELSE /\ Fail(p)
          /\ UNCHANGED <<conversations, clock>>
  /\ UNCHANGED <<messages, nextMsg, nextConv, sockets, connectedUsers, isOnline, userDocs>>

\* await conversation.updateUnreadCount(participant.user): the method
\* counts on the loaded document and save() writes that one key
Unread(p, ok) ==
  /\ req[p].pc = "unread"
  /\ LET r == req[p]
         u == r.doc.participants[r.idx].user
         doc == updateUnreadCount(r.doc, u, DefaultCount)
     IN
     IF ok /\ r.conv \in DOMAIN conversations
     THEN /\ conversations' = [conversations EXCEPT
                ![r.conv].unreadCount[u] = doc.unreadCount[u]]
          /\ Advance(p, [r EXCEPT !.doc = doc],
                     NextRecipient(r.doc, r.user, r.idx + 1))
     ELSE /\ Fail(p)
          /\ UNCHANGED conversations
  /\ UNCHANGED <<messages, nextMsg, nextConv, clock, sockets, connectedUsers,
                 isOnline, userDocs>>

\* ------------------------------------------------------------ behaviours
Membership ==
  \/ \E u \in Creators, b \in CreateBodies : CreateConversation(u, b)
  \/ \E u \in Users, c \in ConvTargets \cup {0}, t \in Users :
        RemoveParticipant(u, c, t)
  \/ \E u \in Users, c \in ConvTargets \cup {0} : LeaveConversation(u, c)

Presence ==
  \/ \E u \in Users, ok \in BOOLEAN : Connect(u, ok)
  \/ \E s \in 1..MaxSockets, ok \in BOOLEAN : Disconnect(s, ok)
  \/ \E s \in 1..MaxSockets, c \in ConvTargets : JoinConversation(s, c)
  \/ \E s \in 1..MaxSockets, c \in ConvTargets : LeaveRoom(s, c)

Sends(P) ==
  \/ \E p \in P, s \in 1..MaxSockets, c \in ConvTargets,
        m \in SocketPayloads, k \in ClientIds : SendBegin(p, s, c, m, k)
  \/ \E p \in P, u \in Users, c \in ConvTargets,
        b \in HttpBodies, k \in ClientIds : HttpSendBegin(p, u, c, b, k)
  \/ \E p \in P, ok \in BOOLEAN : SaveMsg(p, ok)
  \/ \E p \in P, ok \in BOOLEAN : Populate(p, ok)
  \/ \E p \in P, ok \in BOOLEAN : SaveConv(p, ok)
  \/ \E p \in P, ok \in BOOLEAN : Unread(p, ok)

\* one request at a time, among membership and presence changes
Next == Membership \/ Presence \/ Sends({"p1"})

Spec == Init /\ [][Next]_vars

\* a conversation that alice created, with alice connected and the other
\* participants not; every step that can be taken is taken in the end: the
\* event loop runs each handler to its end, and clients keep acting
InitNotify ==
  /\ \E b \in CreateBodies :
        conversations = (1 :>
           [type |-> b.type,
            participants |-> <<NewParticipant("alice", "admin")>> \o
               [i \in 1..Len(b.participants) |->
                  NewParticipant(b.participants[i], "member")],
            lastMessage |-> 0,
            lastMessageAt |-> 1,
            unreadCount |-> [x \in Users |-> 0],
            mutedBy |-> <<>>])
  /\ messages = <<>>
  /\ nextMsg = 1
  /\ nextConv = 2
  /\ clock = 1
  /\ sockets = <<[user |-> "alice", live |-> TRUE, rooms |-> {}]>>
  /\ connectedUsers = ("alice" :> 1)
  /\ isOnline = [u \in Users |-> u = "alice"]
  /\ userDocs = [u \in Users |-> NoLists]
  /\ emitted = {}
  /\ req = [p \in Procs |-> IdleReq]

NextNotify == Presence \/ Sends({"p1"})

FairSpec == InitNotify /\ [][NextNotify]_vars /\ WF_vars(NextNotify)

\* two requests in flight at once, in a conversation that alice created
\* and with alice and bob connected
InitRace ==
  /\ \E b \in CreateBodies :
        conversations = (1 :>
           [type |-> b.type,
            participants |-> <<NewParticipant("alice", "admin")>> \o
               [i \in 1..Len(b.participants) |->
                  NewParticipant(b.participants[i], "member")],
            lastMessage |-> 0,
            lastMessageAt |-> 1,
            unreadCount |-> [x \in Users |-> 0],
            mutedBy |-> <<>>])
  /\ messages = <<>>
  /\ nextMsg = 1
  /\ nextConv = 2
  /\ clock = 1
  /\ sockets = <<[user |-> "alice", live |-> TRUE, rooms |-> {}],
                 [user |-> "bob", live |-> TRUE, rooms |-> {}]>>
  /\ connectedUsers = ("alice" :> 1) @@ ("bob" :> 2)
  /\ isOnline = [u \in Users |-> u \in {"alice", "bob"}]
  /\ userDocs = [u \in Users |-> NoLists]
  /\ emitted = {}
  /\ req = [p \in Procs |-> IdleReq]

NextRace ==
  \/ Sends(Procs)
  \/ \E s \in 1..MaxSockets, c \in ConvTargets : JoinConversation(s, c)

SpecRace == InitRace /\ [][NextRace]_vars

\* ------------------------------------------------- adding participants
\* the participants list of the request body
AddBodies == { <<"bob">>, <<"carol">>, <<"carol", "bob">> }

\* conversationSchema.methods.addParticipant with the default role, on a
\* document: a user who has an entry, active or not, is left as is
addParticipant(doc, u) ==
  IF FindParticipant(doc, u) = 0
  THEN [doc EXCEPT !.participants = Append(@, NewParticipant(u, "member"))]
  ELSE doc

\* for (const participantId of participants) await conversation.addParticipant(...)
RECURSIVE AddAll(_, _)
AddAll(doc, parts) ==
  IF parts = <<>> THEN doc
  ELSE AddAll(addParticipant(doc, Head(parts)), Tail(parts))

\* POST /api/conversations/:id/participants
AddParticipants(p, u, bid, parts) ==
  LET c == AuthorizedConversation(u, 0, bid) IN
  /\ req[p].pc = "idle"
  /\ \A q \in Procs : SlotBefore(q, p) => req[q].pc # "idle"
  /\ c # 0
  /\ LET doc == conversations[c]
         up == doc.participants[FindParticipant(doc, u)]
     IN /\ ~(doc.type = "group" /\ up.role \notin {"admin", "moderator"})
        /\ conversations' = [conversations EXCEPT ![c] = AddAll(doc, parts)]
        /\ req' = [Touch(req, c, "other") EXCEPT ![p] =
                     [IdleReq EXCEPT !.pc = "done", !.kind = "add", !.user = u,
                                     !.conv = c, !.parts = parts, !.doc0 = doc,
                                     !.status = "ok"]]
  /\ UNCHANGED <<messages, nextMsg, nextConv, clock, sockets, connectedUsers,
                 isOnline, userDocs, emitted>>

Adds(P) ==
  \E p \in P, u \in Users, c \in ConvTargets \cup {0}, b \in AddBodies :
     AddParticipants(p, u, c, b)

\* the membership operations alone
SpecMembers == Init /\ [][Membership \/ Adds(Procs)]_vars

\* ------------------------------------------------------- message model
\* reaction tokens and replacement texts of the requests
Tokens == {"fire", "up"}
EditTexts == {"new"}

Placeholder == "This message was deleted"

\* the getter without its first line
displayContent_noDeleted(m) ==
  CASE m.type \in {"text", "system"} -> m.content.text
    [] m.type = "image" -> "Image"
    [] m.type = "video" -> "Video"
    [] m.type = "audio" -> "Audio"
    [] m.type = "file" -> "File"
    [] m.type = "location" -> "Location"
    [] m.type = "contact" -> "Contact"
    [] m.type = "sticker" -> "Sticker"
    [] OTHER -> "Unknown message type"

\* messageSchema.virtual('displayContent'); the labels stand for the
\* pictograph labels of the source
displayContent(m) ==
  IF m.isDeleted THEN Placeholder
  ELSE CASE m.type \in {"text", "system"} -> m.content.text
         [] m.type = "image" -> "Image"
         [] m.type = "video" -> "Video"
         [] m.type = "audio" -> "Audio"
         [] m.type = "file" -> "File"
         [] m.type = "location" -> "Location"
         [] m.type = "contact" -> "Contact"
         [] m.type = "sticker" -> "Sticker"
         [] OTHER -> "Unknown message type"

\* users.includes(userId)
Includes(users, u) == \E i \in 1..Len(users) : users[i] = u

\* the user is pushed without the includes test
addReaction_noTest(m, t, u) ==
  LET users == IF t \in DOMAIN m.reactions THEN m.reactions[t] ELSE <<>>
  IN [m EXCEPT !.reactions = (t :> Append(users, u)) @@ m.reactions]

\* messageSchema.methods.addReaction, on a document
addReaction(m, t, u) ==
  LET users == IF t \in DOMAIN m.reactions THEN m.reactions[t] ELSE <<>>
  IN IF Includes(users, u)
     THEN m
     ELSE [m EXCEPT !.reactions = (t :> Append(users, u)) @@ m.reactions]

\* the filtered list is stored whatever its length
removeReaction_keepEmpty(m, t, u) ==
  IF t \in DOMAIN m.reactions
  THEN LET filteredUsers == SelectSeq(m.reactions[t], LAMBDA id : id # u)
       IN [m EXCEPT !.reactions = (t :> filteredUsers) @@ m.reactions]
  ELSE m

\* messageSchema.methods.removeReaction, on a document
removeReaction(m, t, u) ==
  IF t \in DOMAIN m.reactions
  THEN LET filteredUsers == SelectSeq(m.reactions[t], LAMBDA id : id # u)
       IN IF Len(filteredUsers) = 0
          THEN [m EXCEPT !.reactions =
                   [x \in DOMAIN m.reactions \ {t} |-> m.reactions[x]]]
          ELSE [m EXCEPT !.reactions = (t :> filteredUsers) @@ m.reactions]
  ELSE m

\* messageSchema.methods.editMessage
editMessage(m, newContent, at) ==
  [m EXCEPT !.content.text = newContent, !.isEdited = TRUE, !.editedAt = at]

\* messageSchema.methods.deleteMessage
deleteMessage(m, u) == [m EXCEPT !.isDeleted = TRUE, !.deletedBy = u]

\* authorizeMessageAccess: the id is params.messageId, else body.messageId;
\* the sender passes, and so does an active participant of the conversation
AuthorizedMessage(u, pid, bid) ==
  LET mid == IF pid # 0 THEN pid ELSE bid IN
  IF /\ mid \in DOMAIN messages
     /\ \/ messages[mid].sender = u
        \/ /\ messages[mid].conversation \in DOMAIN conversations
           /\ IsParticipant(conversations[messages[mid].conversation], u)
  THEN mid ELSE 0

\* ------------------------------------------------------- message routes
\* the route without its sender test
EditMessage_anySender(u, bid, text) ==
  LET m == AuthorizedMessage(u, 0, bid) IN
  /\ m # 0
  /\ messages[m].type = "text"
  /\ messages' = [messages EXCEPT ![m] = editMessage(@, text, clock)]
  /\ UNCHANGED <<conversations, nextMsg, nextConv, clock, sockets,
                 connectedUsers, isOnline, userDocs, emitted, req>>

\* PUT /api/messages/:id (the route names its parameter id, so the
\* middleware reads the body's messageId)
EditMessage(u, bid, text) ==
  LET m == AuthorizedMessage(u, 0, bid) IN
  /\ m # 0
  /\ messages[m].sender = u
  /\ messages[m].type = "text"
  /\ messages' = [messages EXCEPT ![m] = editMessage(@, text, clock)]
  /\ UNCHANGED <<conversations, nextMsg, nextConv, clock, sockets,
                 connectedUsers, isOnline, userDocs, emitted, req>>

\* the route without its sender-or-admin test
DeleteMessage_anyone(u, bid) ==
  LET m == AuthorizedMessage(u, 0, bid) IN
  /\ m # 0
  /\ messages[m].conversation \in DOMAIN conversations
  /\ messages' = [messages EXCEPT ![m] = deleteMessage(@, u)]
  /\ UNCHANGED <<conversations, nextMsg, nextConv, clock, sockets,
                 connectedUsers, isOnline, userDocs, emitted, req>>

\* DELETE /api/messages/:id
DeleteMessage(u, bid) ==
  LET m == AuthorizedMessage(u, 0, bid) IN
  /\ m # 0
  /\ messages[m].conversation \in DOMAIN conversations
  /\ LET doc == conversations[messages[m].conversation]
         i == FindParticipant(doc, u)
         isSender == messages[m].sender = u
         isAdmin == i # 0 /\ doc.participants[i].role = "admin"
     IN /\ isSender \/ isAdmin
        /\ messages' = [messages EXCEPT ![m] = deleteMessage(@, u)]
  /\ UNCHANGED <<conversations, nextMsg, nextConv, clock, sockets,
                 connectedUsers, isOnline, userDocs, emitted, req>>

\* POST /api/messages/:id/reactions
HttpReact(u, bid, t) ==
  LET m == AuthorizedMessage(u, 0, bid) IN
  /\ m # 0
  /\ messages' = [messages EXCEPT ![m] = addReaction(@, t, u)]
  /\ UNCHANGED <<conversations, nextMsg, nextConv, clock, sockets,
                 connectedUsers, isOnline, userDocs, emitted, req>>

\* DELETE /api/messages/:id/reactions/:reaction
HttpUnreact(u, bid, t) ==
  LET m == AuthorizedMessage(u, 0, bid) IN
  /\ m # 0
  /\ messages' = [messages EXCEPT ![m] = removeReaction(@, t, u)]
  /\ UNCHANGED <<conversations, nextMsg, nextConv, clock, sockets,
                 connectedUsers, isOnline, userDocs, emitted, req>>

\* socket.on('message:react')
SockReact(s, m, t) ==
  /\ s \in LiveSockets
  /\ m \in DOMAIN messages
  /\ messages[m].conversation \in DOMAIN conversations
  /\ IsParticipant(conversations[messages[m].conversation], sockets[s].user)
  /\ messages' = [messages EXCEPT ![m] = addReaction(@, t, sockets[s].user)]
  /\ UNCHANGED <<conversations, nextMsg, nextConv, clock, sockets,
                 connectedUsers, isOnline, userDocs, emitted, req>>

\* socket.on('message:remove_reaction')
SockUnreact(s, m, t) ==
  /\ s \in LiveSockets
  /\ m \in DOMAIN messages
  /\ messages' = [messages EXCEPT ![m] = removeReaction(@, t, sockets[s].user)]
  /\ UNCHANGED <<conversations, nextMsg, nextConv, clock, sockets,
                 connectedUsers, isOnline, userDocs, emitted, req>>

\* message ids a request may name: the stored ones and one beyond
MsgTargets == 1..nextMsg

\* the content `new Message` is given for a message of type t
ContentOf(t) ==
  IF t \in {"text", "system"} THEN [text |-> "hi", media |-> ""]
  ELSE [text |-> "", media |-> "pic"]

\* a group of alice, bob and carol holding one message, of alice the admin
\* or of bob, and of any type; alice and bob are connected
InitMessage ==
  /\ conversations = (1 :>
        [type |-> "group",
         participants |-> <<NewParticipant("alice", "admin"),
                            NewParticipant("bob", "member"),
                            NewParticipant("carol", "member")>>,
         lastMessage |-> 1,
         lastMessageAt |-> 1,
         unreadCount |-> [x \in Users |-> 0],
            mutedBy |-> <<>>])
  /\ \E t \in MessageTypes, from \in {"alice", "bob"} :
        messages = (1 :> NewMessage([conv |-> 1, user |-> from, type |-> t,
                                     content |-> ContentOf(t), clientId |-> "k1"]))
  /\ nextMsg = 2
  /\ nextConv = 2
  /\ clock = 2
  /\ sockets = <<[user |-> "alice", live |-> TRUE, rooms |-> {}],
                 [user |-> "bob", live |-> TRUE, rooms |-> {}]>>
  /\ connectedUsers = ("alice" :> 1) @@ ("bob" :> 2)
  /\ isOnline = [u \in Users |-> u \in {"alice", "bob"}]
  /\ userDocs = [u \in Users |-> NoLists]
  /\ emitted = {}
  /\ req = [p \in Procs |-> IdleReq]

NextMessage ==
  \/ \E u \in Users, m \in MsgTargets, x \in EditTexts : EditMessage(u, m, x)
  \/ \E u \in Users, m \in MsgTargets : DeleteMessage(u, m)
  \/ \E u \in Users, m \in MsgTargets, t \in Tokens : HttpReact(u, m, t)
  \/ \E u \in Users, m \in MsgTargets, t \in Tokens : HttpUnreact(u, m, t)
  \/ \E s \in 1..MaxSockets, m \in MsgTargets, t \in Tokens : SockReact(s, m, t)
  \/ \E s \in 1..MaxSockets, m \in MsgTargets, t \in Tokens : SockUnreact(s, m, t)

SpecMessage == InitMessage /\ [][NextMessage]_vars

\* -------------------------------------------------------------- receipts
\* messageSchema.methods.markAsRead, on the loaded document
markAsRead(m, u) ==
  IF Includes(m.readBy, u) THEN m ELSE [m EXCEPT !.readBy = Append(@, u)]

\* messageSchema.methods.markAsDelivered, on the loaded document
markAsDelivered(m, u) ==
  IF Includes(m.deliveredTo, u) THEN m ELSE [m EXCEPT !.deliveredTo = Append(@, u)]

Marking(kind, s, m, pushed) ==
  [IdleReq EXCEPT !.pc = "saveMark", !.kind = kind, !.sock = s,
                  !.user = sockets[s].user, !.msg = m, !.pushed = pushed]

\* socket.on('message:read') up to the save() inside markAsRead
ReadBegin(p, s, m) ==
  /\ req[p].pc = "idle"
  /\ \A q \in Procs : SlotBefore(q, p) => req[q].pc # "idle"
  /\ s \in LiveSockets
  /\ m \in DOMAIN messages
  /\ req' = [req EXCEPT ![p] =
               Marking("read", s, m,
                       markAsRead(messages[m], sockets[s].user) # messages[m])]
  /\ UNCHANGED <<conversations, messages, nextMsg, nextConv, clock, sockets,
                 connectedUsers, isOnline, userDocs, emitted>>

\* socket.on('message:delivered') up to the save() inside markAsDelivered
DeliveredBegin(p, s, m) ==
  /\ req[p].pc = "idle"
  /\ \A q \in Procs : SlotBefore(q, p) => req[q].pc # "idle"
  /\ s \in LiveSockets
  /\ m \in DOMAIN messages
  /\ req' = [req EXCEPT ![p] =
               Marking("delivered", s, m,
                       markAsDelivered(messages[m], sockets[s].user) # messages[m])]
  /\ UNCHANGED <<conversations, messages, nextMsg, nextConv, clock, sockets,
                 connectedUsers, isOnline, userDocs, emitted>>

\* return this.save(): a pushed entry is written as a push to the stored
\* array; a rejected save is logged by the catch block
MarkSave(p, ok) ==
  /\ req[p].pc = "saveMark"
  /\ LET r == req[p] IN
     IF ok /\ r.msg \in DOMAIN messages
     THEN /\ messages' =
               IF ~r.pushed THEN messages
               ELSE IF r.kind = "read"
                    THEN [messages EXCEPT ![r.msg].readBy = Append(@, r.user)]
                    ELSE [messages EXCEPT ![r.msg].deliveredTo = Append(@, r.user)]
          /\ req' = [req EXCEPT ![p].pc = "done", ![p].status = "ok"]
     ELSE /\ req' = [req EXCEPT ![p].pc = "done", ![p].status = "failed"]
          /\ UNCHANGED messages
  /\ UNCHANGED <<conversations, nextMsg, nextConv, clock, sockets,
                 connectedUsers, isOnline, userDocs, emitted>>

\* PUT /api/conversations/:id/read: resetUnreadCount, then updateMany
\* pushes the user to readBy of every message of the conversation that
\* has no entry of the user
MarkConversationRead(u, bid) ==
  LET c == AuthorizedConversation(u, 0, bid) IN
  /\ c # 0
  /\ conversations' = [conversations EXCEPT ![c] = resetUnreadCount(@, u)]
  /\ messages' = [m \in DOMAIN messages |->
                    IF messages[m].conversation = c /\ ~Includes(messages[m].readBy, u)
                    THEN [messages[m] EXCEPT !.readBy = Append(@, u)]
                    ELSE messages[m]]
  /\ req' = Touch(req, c, "other")
  /\ UNCHANGED <<nextMsg, nextConv, clock, sockets, connectedUsers, isOnline, userDocs,
                 emitted>>

\* a text message in the group, two receipt events in flight at once
InitRead == InitMessage /\ messages[1].type = "text"

NextRead ==
  \/ \E p \in Procs, s \in 1..MaxSockets, m \in MsgTargets : ReadBegin(p, s, m)
  \/ \E p \in Procs, s \in 1..MaxSockets, m \in MsgTargets : DeliveredBegin(p, s, m)
  \/ \E p \in Procs, ok \in BOOLEAN : MarkSave(p, ok)
  \/ \E u \in Users, c \in ConvTargets \cup {0} : MarkConversationRead(u, c)

SpecRead == InitRead /\ [][NextRead]_vars

\* --------------------------------------------------------------- forward
\* conversationIds of the request body: stored conversations, one that is
\* not stored, and a repeated id
ForwardBodies == { <<1>>, <<2>>, <<1, 2>>, <<2, 3>>, <<2, 2>> }

\* ascending sequence of the elements of a set of ids
RECURSIVE SortedSeq(_)
SortedSeq(S) ==
  IF S = {} THEN <<>>
  ELSE LET x == CHOOSE y \in S : \A z \in S : y <= z
       IN <<x>> \o SortedSeq(S \ {x})

\* Conversation.find({ _id: { $in: ids }, 'participants.user': u,
\* 'participants.isActive': true }): the two conditions on participants
\* are met by any entries of the array, not by one and the same entry
FindTargets(u, ids) ==
  SortedSeq({c \in DOMAIN conversations :
               /\ \E i \in 1..Len(ids) : ids[i] = c
               /\ IsParticipantNoActive(conversations[c], u)
               /\ \E i \in 1..Len(conversations[c].participants) :
                      conversations[c].participants[i].isActive})

\* messageSchema.methods.forwardMessage: the document Message.create is given
forwardMessage(r, target) ==
  [NewMessage([conv |-> target, user |-> r.user, type |-> r.type,
               content |-> r.content, clientId |-> ""])
     EXCEPT !.forwardedFrom = [message |-> r.msg, user |-> messages[r.msg].sender]]

\* POST /api/messages/:id/forward up to the first forwardMessage
ForwardBegin(p, u, bid, ids) ==
  LET m == AuthorizedMessage(u, 0, bid)
      found == FindTargets(u, ids)
  IN
  /\ req[p].pc = "idle"
  /\ \A q \in Procs : SlotBefore(q, p) => req[q].pc # "idle"
  /\ m # 0
  /\ req' = [req EXCEPT ![p] =
        [IdleReq EXCEPT !.pc = IF Len(found) # Len(ids) THEN "done" ELSE "fwdCreate",
                        !.status = IF Len(found) # Len(ids) THEN "BadRequest" ELSE "",
                        !.kind = "forward", !.user = u, !.msg = m,
                        !.type = messages[m].type, !.content = messages[m].content,
                        !.ids = ids, !.found = found, !.idx = 1]]
  /\ UNCHANGED <<conversations, messages, nextMsg, nextConv, clock, sockets,
                 connectedUsers, isOnline, userDocs, emitted>>

\* await originalMessage.forwardMessage(conversation._id, req.user._id)
ForwardCreate(p, ok) ==
  /\ req[p].pc = "fwdCreate"
  /\ LET r == req[p] IN
     IF ok /\ ValidMessage(r)
     THEN /\ messages' = (nextMsg :> forwardMessage(r, r.found[r.idx])) @@ messages
          /\ nextMsg' = nextMsg + 1
          /\ req' = [req EXCEPT ![p].pc = "fwdPopulate", ![p].copy = nextMsg]
     ELSE /\ req' = [req EXCEPT ![p].pc = "done", ![p].status = "failed"]
          /\ UNCHANGED <<messages, nextMsg>>
  /\ UNCHANGED <<conversations, nextConv, clock, sockets, connectedUsers,
                 isOnline, userDocs, emitted>>

\* await forwardedMessage.populate('sender', ...)
ForwardPopulate(p, ok) ==
  /\ req[p].pc = "fwdPopulate"
  /\ req' = IF ok THEN [req EXCEPT ![p].pc = "fwdSaveConv"]
            ELSE [req EXCEPT ![p].pc = "done", ![p].status = "failed"]
  /\ UNCHANGED <<conversations, messages, nextMsg, nextConv, clock, sockets,
                 connectedUsers, isOnline, userDocs, emitted>>

\* conversation.lastMessage = ...; await conversation.save(); then the
\* next conversation of the loop, or the response
ForwardSaveConv(p, ok) ==
  /\ req[p].pc = "fwdSaveConv"
  /\ LET r == req[p]
         c == r.found[r.idx]
     IN
     IF ok /\ c \in DOMAIN conversations
     THEN /\ conversations' = [conversations EXCEPT
                ![c] = SetLastMessage(@, r.copy, clock)]
          /\ clock' = clock + 1
          /\ req' = Touch([req EXCEPT ![p] =
                 IF r.idx < Len(r.found)
                 THEN [r EXCEPT !.pc = "fwdCreate", !.idx = r.idx + 1]
                 ELSE [r EXCEPT !.pc = "done", !.status = "ok"]], c, p)
     ELSE /\ req' = [req EXCEPT ![p].pc = "done", ![p].status = "failed"]
          /\ UNCHANGED <<conversations, clock>>
  /\ UNCHANGED <<messages, nextMsg, nextConv, sockets, connectedUsers,
                 isOnline, userDocs, emitted>>

\* the group with its text message, and a direct conversation of alice
\* and carol that alice may have left
InitForward ==
  /\ \E left \in BOOLEAN :
        conversations = (1 :>
           [type |-> "group",
            participants |-> <<NewParticipant("alice", "admin"),
                               NewParticipant("bob", "member"),
                               NewParticipant("carol", "member")>>,
            lastMessage |-> 1,
            lastMessageAt |-> 1,
            unreadCount |-> [x \in Users |-> 0],
            mutedBy |-> <<>>])
         @@ (2 :>
           [type |-> "direct",
            participants |-> <<[NewParticipant("alice", "admin")
                                   EXCEPT !.isActive = ~left],
                               NewParticipant("carol", "member")>>,
            lastMessage |-> 0,
            lastMessageAt |-> 1,
            unreadCount |-> [x \in Users |-> 0],
            mutedBy |-> <<>>])
  /\ messages = (1 :> NewMessage([conv |-> 1, user |-> "alice", type |-> "text",
                                  content |-> ContentOf("text"), clientId |-> "k1"]))
  /\ nextMsg = 2
  /\ nextConv = 3
  /\ clock = 2
  /\ sockets = <<>>
  /\ connectedUsers = [u \in {} |-> 0]
  /\ isOnline = [u \in Users |-> FALSE]
  /\ userDocs = [u \in Users |-> NoLists]
  /\ emitted = {}
  /\ req = [p \in Procs |-> IdleReq]

Forwards(P) ==
  \/ \E p \in P, u \in Users, m \in MsgTargets, ids \in ForwardBodies :
        ForwardBegin(p, u, m, ids)
  \/ \E p \in P, ok \in BOOLEAN : ForwardCreate(p, ok)
  \/ \E p \in P, ok \in BOOLEAN : ForwardPopulate(p, ok)
  \/ \E p \in P, ok \in BOOLEAN : ForwardSaveConv(p, ok)

\* one forward request
SpecForward == InitForward /\ [][Forwards({"p1"})]_vars

\* ------------------------------------------------------ login and logout
\* userSchema.methods.updateOnlineStatus: the durable flag
updateOnlineStatus(flags, u, online) == [flags EXCEPT ![u] = online]

\* POST /api/auth/login with valid credentials; ok: the save succeeded
Login(u, ok) ==
  /\ isOnline' = IF ok THEN updateOnlineStatus(isOnline, u, TRUE) ELSE isOnline
  /\ UNCHANGED <<conversations, messages, nextMsg, nextConv, clock, sockets,
                 connectedUsers, userDocs, emitted, req>>

\* POST /api/auth/logout; ok: the save succeeded
Logout(u, ok) ==
  /\ isOnline' = IF ok THEN updateOnlineStatus(isOnline, u, FALSE) ELSE isOnline
  /\ UNCHANGED <<conversations, messages, nextMsg, nextConv, clock, sockets,
                 connectedUsers, userDocs, emitted, req>>

NextPresence ==
  \/ \E u \in Users, ok \in BOOLEAN : Connect(u, ok)
  \/ \E s \in 1..MaxSockets, ok \in BOOLEAN : Disconnect(s, ok)
  \/ \E u \in Users, ok \in BOOLEAN : Login(u, ok)
  \/ \E u \in Users, ok \in BOOLEAN : Logout(u, ok)

\* connections and sessions alone
SpecPresence == Init /\ [][NextPresence]_vars

\* ------------------------------------------------------- typing and calls
\* may the user of connection s signal into conversation c
MaySignal(s, c) ==
  c \in DOMAIN conversations /\ IsParticipant(conversations[c], sockets[s].user)

\* socket.on('typing:start'): a requester who is no active participant
\* makes the handler return, a missing conversation makes it log
TypingStart(s, c) ==
  /\ s \in LiveSockets
  /\ emitted' = IF MaySignal(s, c)
                THEN emitted \cup {Event("typing:start", RoomOf(c) \ {s},
                                         sockets[s].user, c, 0, "", "")}
                ELSE emitted
  /\ UNCHANGED <<conversations, messages, nextMsg, nextConv, clock, sockets,
                 connectedUsers, isOnline, userDocs, req>>

\* socket.on('typing:stop')
TypingStop(s, c) ==
  /\ s \in LiveSockets
  /\ emitted' = IF MaySignal(s, c)
                THEN emitted \cup {Event("typing:stop", RoomOf(c) \ {s},
                                         sockets[s].user, c, 0, "", "")}
                ELSE emitted
  /\ UNCHANGED <<conversations, messages, nextMsg, nextConv, clock, sockets,
                 connectedUsers, isOnline, userDocs, req>>

\* socket.on('call:initiate')
CallInitiate(s, c) ==
  /\ s \in LiveSockets
  /\ emitted' = emitted \cup
       {IF c \notin DOMAIN conversations
        THEN ErrorEvent(s, "Failed to initiate call")
        ELSE IF ~IsParticipant(conversations[c], sockets[s].user)
        THEN ErrorEvent(s, "Not a participant of this conversation")
        ELSE Event("call:incoming", RoomOf(c) \ {s}, sockets[s].user, c, 0, "", "")}
  /\ UNCHANGED <<conversations, messages, nextMsg, nextConv, clock, sockets,
                 connectedUsers, isOnline, userDocs, req>>

NextSignals ==
  \/ \E u \in Users, c \in ConvTargets, t \in Users : RemoveParticipant(u, c, t)
  \/ \E s \in 1..MaxSockets, c \in ConvTargets : JoinConversation(s, c)
  \/ \E s \in 1..MaxSockets, c \in DOMAIN conversations : TypingStart(s, c)
  \/ \E s \in 1..MaxSockets, c \in DOMAIN conversations : TypingStop(s, c)
  \/ \E s \in 1..MaxSockets, c \in DOMAIN conversations : CallInitiate(s, c)

\* the signalling events of two connections, among removals
SpecSignals == InitRace /\ [][NextSignals]_vars

\* --------------------------------------------------------- unread counters
\* the counts a caller may pass to updateUnreadCount
Deltas == (0 - MaxUnread)..MaxUnread

\* a stored conversation of alice and bob with any counters the sends leave
InitUnread ==
  /\ \E n \in [Users -> 0..MaxUnread] :
        conversations = (1 :>
           [type |-> "direct",
            participants |-> <<NewParticipant("alice", "admin"),
                               NewParticipant("bob", "member")>>,
            lastMessage |-> 0,
            lastMessageAt |-> 1,
            unreadCount |-> n,
            mutedBy |-> <<>>])
  /\ messages = <<>>
  /\ nextMsg = 1
  /\ nextConv = 2
  /\ clock = 1
  /\ sockets = <<>>
  /\ connectedUsers = <<>>
  /\ isOnline = [u \in Users |-> FALSE]
  /\ userDocs = [u \in Users |-> NoLists]
  /\ emitted = {}
  /\ req = [p \in Procs |-> IdleReq]

\* conversation.updateUnreadCount(userId, count) on the stored document
ApplyUpdate(c, u, count) ==
  /\ c \in DOMAIN conversations
  /\ LET doc == updateUnreadCount(conversations[c], u, count) IN
     /\ doc.unreadCount[u] \in (0 - MaxUnread)..MaxUnread
     /\ conversations' = [conversations EXCEPT ![c] = doc]
  /\ UNCHANGED <<messages, nextMsg, nextConv, clock, sockets, connectedUsers,
                 isOnline, userDocs, emitted, req>>

\* conversation.resetUnreadCount(userId) on the stored document
ApplyReset(c, u) ==
  /\ c \in DOMAIN conversations
  /\ conversations' = [conversations EXCEPT ![c] = resetUnreadCount(@, u)]
  /\ UNCHANGED <<messages, nextMsg, nextConv, clock, sockets, connectedUsers,
                 isOnline, userDocs, emitted, req>>

NextUnread ==
  \/ \E c \in ConvTargets, u \in Users, count \in Deltas : ApplyUpdate(c, u, count)
  \/ \E c \in ConvTargets, u \in Users : ApplyReset(c, u)

\* the two counter methods applied with every count
SpecUnread == InitUnread /\ [][NextUnread]_vars

\* ------------------------------------------------------------- block lists
\* userSchema.methods.blockUser: push unless already listed
blockUser(doc, t) ==
  IF Includes(doc.blockedUsers, t)
  THEN doc
  ELSE [doc EXCEPT !.blockedUsers = Append(@, t)]

\* userSchema.methods.unblockUser: filter the id out
unblockUser(doc, t) ==
  [doc EXCEPT !.blockedUsers = SelectSeq(@, LAMBDA id : id # t)]

\* userSchema.methods.isBlocked
isBlocked(doc, t) == \E i \in DOMAIN doc.blockedUsers : doc.blockedUsers[i] = t

\* userSchema.methods.isBlockedBy
isBlockedBy(doc, t) == \E i \in DOMAIN doc.blockedBy : doc.blockedBy[i] = t

\* POST /api/users/:id/block: refused for oneself; the target is loaded
\* and only the requester's document is saved
BlockUser(u, t) ==
  /\ t # u
  /\ userDocs' = [userDocs EXCEPT ![u] = blockUser(@, t)]
  /\ UNCHANGED <<conversations, messages, nextMsg, nextConv, clock, sockets,
                 connectedUsers, isOnline, emitted, req>>

\* DELETE /api/users/:id/block
UnblockUser(u, t) ==
  /\ userDocs' = [userDocs EXCEPT ![u] = unblockUser(@, t)]
  /\ UNCHANGED <<conversations, messages, nextMsg, nextConv, clock, sockets,
                 connectedUsers, isOnline, emitted, req>>

NextBlock ==
  \/ \E u \in Users, t \in Users : BlockUser(u, t)
  \/ \E u \in Users, t \in Users : UnblockUser(u, t)

\* block and unblock requests of the registered users
SpecBlock == Init /\ [][NextBlock]_vars

\* --------------------------------------------------------------------- mute
\* duration = null of muteConversation, and the mutedUntil it stores
NoDuration == 0
NoDate == 0

\* req.body.duration of POST /:id/mute: absent, or a number of ticks
Durations == {NoDuration, 2}

\* this.mutedBy.find(m => m.user.equals(userId)): index of the first entry
\* of the user, 0 if none
FindMute(doc, u) ==
  IF \E i \in DOMAIN doc.mutedBy : doc.mutedBy[i].user = u
  THEN CHOOSE i \in DOMAIN doc.mutedBy :
         /\ doc.mutedBy[i].user = u
         /\ \A j \in 1..(i - 1) : doc.mutedBy[j].user # u
  ELSE 0

\* conversationSchema.methods.muteConversation at time now
muteConversation(doc, u, duration, now) ==
  LET mutedUntil == IF duration # NoDuration THEN now + duration ELSE NoDate
      i == FindMute(doc, u)
  IN IF i # 0
     THEN [doc EXCEPT !.mutedBy[i].mutedUntil = mutedUntil,
                      !.mutedBy[i].mutedAt = now]
     ELSE [doc EXCEPT !.mutedBy =
             Append(@, [user |-> u, mutedUntil |-> mutedUntil, mutedAt |-> now])]

\* conversationSchema.methods.unmuteConversation
unmuteConversation(doc, u) ==
  [doc EXCEPT !.mutedBy = SelectSeq(@, LAMBDA m : m.user # u)]

\* conversationSchema.methods.isUserMuted at time now: the answer, and the
\* document as the call leaves it
isUserMuted(doc, u, now) ==
  LET i == FindMute(doc, u) IN
  IF i = 0
  THEN [muted |-> FALSE, doc |-> doc]
  ELSE IF doc.mutedBy[i].mutedUntil # NoDate /\ doc.mutedBy[i].mutedUntil > now
  THEN [muted |-> TRUE, doc |-> doc]
  ELSE [muted |-> FALSE,
        doc |-> [doc EXCEPT !.mutedBy = SelectSeq(@, LAMBDA m : m.user # u)]]

\* a stored group conversation of alice, bob and carol
InitMute ==
  /\ conversations = (1 :>
        [type |-> "group",
         participants |-> <<NewParticipant("alice", "admin"),
                            NewParticipant("bob", "member"),
                            NewParticipant("carol", "member")>>,
         lastMessage |-> 0,
         lastMessageAt |-> 1,
         unreadCount |-> [x \in Users |-> 0],
         mutedBy |-> <<>>])
  /\ messages = <<>>
  /\ nextMsg = 1
  /\ nextConv = 2
  /\ clock = 1
  /\ sockets = <<>>
  /\ connectedUsers = <<>>
  /\ isOnline = [u \in Users |-> FALSE]
  /\ userDocs = [u \in Users |-> NoLists]
  /\ emitted = {}
  /\ req = [p \in Procs |-> IdleReq]

\* POST /api/conversations/:id/mute by an active participant
MuteConversation(u, c, duration) ==
  /\ c \in DOMAIN conversations
  /\ IsParticipant(conversations[c], u)
  /\ conversations' = [conversations EXCEPT
        ![c] = muteConversation(@, u, duration, clock)]
  /\ UNCHANGED <<messages, nextMsg, nextConv, clock, sockets, connectedUsers,
                 isOnline, userDocs, emitted, req>>

\* POST /api/conversations/:id/unmute by an active participant
UnmuteConversation(u, c) ==
  /\ c \in DOMAIN conversations
  /\ IsParticipant(conversations[c], u)
  /\ conversations' = [conversations EXCEPT ![c] = unmuteConversation(@, u)]
  /\ UNCHANGED <<messages, nextMsg, nextConv, clock, sockets, connectedUsers,
                 isOnline, userDocs, emitted, req>>

\* conversation.isUserMuted(userId) on the document, which keeps what the
\* call evicted
ReadMuted(u, c) ==
  /\ c \in DOMAIN conversations
  /\ conversations' = [conversations EXCEPT
        ![c] = isUserMuted(@, u, clock).doc]
  /\ UNCHANGED <<messages, nextMsg, nextConv, clock, sockets, connectedUsers,
                 isOnline, userDocs, emitted, req>>

\* time passes
Tick ==
  /\ clock < MaxTime
  /\ clock' = clock + 1
  /\ UNCHANGED <<conversations, messages, nextMsg, nextConv, sockets,
                 connectedUsers, isOnline, userDocs, emitted, req>>

NextMute ==
  \/ \E u \in Users, c \in ConvTargets, d \in Durations : MuteConversation(u, c, d)
  \/ \E u \in Users, c \in ConvTargets : UnmuteConversation(u, c)
  \/ \E u \in Users, c \in ConvTargets : ReadMuted(u, c)
  \/ Tick

\* mutes, unmutes and reads of the mute state as time passes
SpecMute == InitMute /\ [][NextMute]_vars

\* ------------------------------------------------- connections, no failure
NextConnections ==
  \/ \E u \in Creators, b \in CreateBodies : CreateConversation(u, b)
  \/ \E u \in Users : Connect(u, TRUE)
  \/ \E s \in 1..MaxSockets : Disconnect(s, TRUE)
  \/ \E s \in 1..MaxSockets, c \in ConvTargets : JoinConversation(s, c)
  \/ \E s \in 1..MaxSockets, c \in ConvTargets : LeaveRoom(s, c)

\* connections that come, join rooms and go, their presence writes all
\* succeeding
SpecConnections == Init /\ [][NextConnections]_vars

\* --------------------------------------- message changes among removals
\* a text message of bob in the group of alice, bob and carol
InitAccess == InitRead /\ messages[1].sender = "bob"

NextAccess ==
  \/ \E u \in Users, c \in ConvTargets, t \in Users : RemoveParticipant(u, c, t)
  \/ \E u \in Users, m \in MsgTargets : HttpReact(u, m, "fire")
  \/ \E u \in Users, m \in MsgTargets : HttpUnreact(u, m, "fire")
  \/ \E s \in 1..MaxSockets, m \in MsgTargets : SockReact(s, m, "fire")
  \/ \E s \in 1..MaxSockets, m \in MsgTargets : SockUnreact(s, m, "fire")
  \/ \E s \in 1..MaxSockets, m \in MsgTargets : ReadBegin("p1", s, m)
  \/ \E s \in 1..MaxSockets, m \in MsgTargets : DeliveredBegin("p1", s, m)
  \/ \E ok \in BOOLEAN : MarkSave("p1", ok)

\* reactions and receipts of two connections while participants are removed
SpecAccess == InitAccess /\ [][NextAccess]_vars

\* ------------------------------------------- creating direct conversations
\* the document `new Conversation` builds for requester u and the body
NewConversation(u, body, at) ==
  [type |-> body.type,
   participants |-> <<NewParticipant(u, "admin")>> \o
      [i \in 1..Len(body.participants) |->
         NewParticipant(body.participants[i], "member")],
   lastMessage |-> 0,
   lastMessageAt |-> at,
   unreadCount |-> [x \in Users |-> 0],
   mutedBy |-> <<>>]

\* request bodies of type direct that name one other user
DirectBodies(u) ==
  { [type |-> "direct", participants |-> <<t>>] : t \in Users \ {u} }

\* POST /api/conversations up to conversation.save(): the lookup of an
\* existing direct conversation answers the request when it finds one
CreateBegin(p, u, body) ==
  /\ req[p].pc = "idle"
  /\ \A q \in Procs : SlotBefore(q, p) => req[q].pc # "idle"
  /\ LET found == IF body.type = "direct" /\ Len(body.participants) = 1
                  THEN findDirectConversation(u, body.participants[1])
                  ELSE 0
     IN req' = [req EXCEPT ![p] =
          IF found # 0
          THEN [IdleReq EXCEPT !.pc = "done", !.kind = "create", !.user = u,
                               !.conv = found, !.status = "existing"]
          ELSE [IdleReq EXCEPT !.pc = "saveNew", !.kind = "create", !.user = u,
                               !.doc = NewConversation(u, body, clock)]]
  /\ UNCHANGED <<conversations, messages, nextMsg, nextConv, clock, sockets,
                 connectedUsers, isOnline, userDocs, emitted>>

\* await conversation.save() of the new document; ok: the save succeeded
CreateSave(p, ok) ==
  /\ req[p].pc = "saveNew"
  /\ IF ok
     THEN /\ conversations' = (nextConv :> req[p].doc) @@ conversations
          /\ nextConv' = nextConv + 1
          /\ req' = [req EXCEPT ![p].pc = "done", ![p].status = "ok",
                                ![p].conv = nextConv]
     ELSE /\ req' = [req EXCEPT ![p].pc = "done", ![p].status = "failed"]
          /\ UNCHANGED <<conversations, nextConv>>
  /\ UNCHANGED <<messages, nextMsg, clock, sockets, connectedUsers, isOnline,
                 userDocs, emitted>>

NextCreate ==
  \/ \E p \in Procs, u \in Users : \E b \in DirectBodies(u) : CreateBegin(p, u, b)
  \/ \E p \in Procs, ok \in BOOLEAN : CreateSave(p, ok)

\* two create requests, each step of one interleaved with the other's
SpecCreate == Init /\ [][NextCreate]_vars

\* ---------------------------------------------------- cascade delete
\* DELETE /api/conversations/:id up to Message.deleteMany: an active
\* participant, who in a group must have role admin
DeleteBegin(p, u, bid) ==
  LET c == AuthorizedConversation(u, 0, bid) IN
  /\ req[p].pc = "idle"
  /\ \A q \in Procs : SlotBefore(q, p) => req[q].pc # "idle"
  /\ c # 0
  /\ LET doc == conversations[c]
         up == doc.participants[FindParticipant(doc, u)]
     IN doc.type = "group" => up.role = "admin"
  /\ req' = [req EXCEPT ![p] =
               [IdleReq EXCEPT !.pc = "deleteMany", !.kind = "delete",
                               !.user = u, !.conv = c]]
  /\ UNCHANGED <<conversations, messages, nextMsg, nextConv, clock, sockets,
                 connectedUsers, isOnline, userDocs, emitted>>

\* await Message.deleteMany({ conversation }); ok: the store carried it out
DeleteMany(p, ok) ==
  /\ req[p].pc = "deleteMany"
  /\ IF ok
     THEN /\ messages' =
               [m \in {x \in DOMAIN messages :
                         messages[x].conversation # req[p].conv} |-> messages[m]]
          /\ req' = [req EXCEPT ![p].pc = "removeDoc"]
     ELSE /\ req' = [req EXCEPT ![p].pc = "done", ![p].status = "failed"]
          /\ UNCHANGED messages
  /\ UNCHANGED <<conversations, nextMsg, nextConv, clock, sockets,
                 connectedUsers, isOnline, userDocs, emitted>>

\* await conversation.remove(); ok: the store carried it out
DeleteRemove(p, ok) ==
  /\ req[p].pc = "removeDoc"
  /\ IF ok
     THEN /\ conversations' =
               [c \in DOMAIN conversations \ {req[p].conv} |-> conversations[c]]
          /\ req' = [req EXCEPT ![p].pc = "done", ![p].status = "ok"]
     ELSE /\ req' = [req EXCEPT ![p].pc = "done", ![p].status = "failed"]
          /\ UNCHANGED conversations
  /\ UNCHANGED <<messages, nextMsg, nextConv, clock, sockets,
                 connectedUsers, isOnline, userDocs, emitted>>

Deletes(P) ==
  \/ \E p \in P, u \in Users, c \in ConvTargets : DeleteBegin(p, u, c)
  \/ \E p \in P, ok \in BOOLEAN : DeleteMany(p, ok)
  \/ \E p \in P, ok \in BOOLEAN : DeleteRemove(p, ok)

\* a send that arrives first, and a delete of the conversation whose steps
\* interleave with the send's
SpecCascade == InitRace /\ [][Sends({"p1"}) \/ Deletes({"p2"})]_vars

\* ------------------------------------------------------- call signalling
\* the conversations in which a call was announced: a callId that a client
\* sends back comes from a call:incoming event
Calls == {e.conv : e \in {x \in emitted : x.ev = "call:incoming"}}

\* socket.on('call:accept'): socket.broadcast reaches every other live
\* connection; c is the conversation of the call the callId names
CallAccept(s, c) ==
  /\ s \in LiveSockets
  /\ c \in Calls
  /\ emitted' = emitted \cup
       {Event("call:accepted", LiveSockets \ {s}, sockets[s].user, c, 0, "", "")}
  /\ UNCHANGED <<conversations, messages, nextMsg, nextConv, clock, sockets,
                 connectedUsers, isOnline, userDocs, req>>

\* socket.on('call:reject')
CallReject(s, c) ==
  /\ s \in LiveSockets
  /\ c \in Calls
  /\ emitted' = emitted \cup
       {Event("call:rejected", LiveSockets \ {s}, sockets[s].user, c, 0, "", "")}
  /\ UNCHANGED <<conversations, messages, nextMsg, nextConv, clock, sockets,
                 connectedUsers, isOnline, userDocs, req>>

\* socket.on('call:end')
CallEnd(s, c) ==
  /\ s \in LiveSockets
  /\ c \in Calls
  /\ emitted' = emitted \cup
       {Event("call:ended", LiveSockets \ {s}, sockets[s].user, c, 0, "", "")}
  /\ UNCHANGED <<conversations, messages, nextMsg, nextConv, clock, sockets,
                 connectedUsers, isOnline, userDocs, req>>

NextCalls ==
  \/ \E u \in Users, c \in ConvTargets, t \in Users : RemoveParticipant(u, c, t)
  \/ \E s \in 1..MaxSockets, c \in ConvTargets : JoinConversation(s, c)
  \/ \E s \in 1..MaxSockets, c \in DOMAIN conversations : CallInitiate(s, c)
  \/ \E s \in 1..MaxSockets, c \in ConvTargets : CallAccept(s, c)
  \/ \E s \in 1..MaxSockets, c \in ConvTargets : CallReject(s, c)
  \/ \E s \in 1..MaxSockets, c \in ConvTargets : CallEnd(s, c)

\* calls of two connections, among joins and removals
SpecCalls == InitRace /\ [][NextCalls]_vars

\* ------------------------------------------------- requests with a path id
\* POST /api/conversations/:id/leave with path id pid and body id bid: the
\* route binds the path id to params.id, which neither the middleware nor
\* the handler reads
LeaveRequest(u, pid, bid) == LeaveConversation(u, bid)

\* PUT /api/messages/:id with path id pid and body id bid
EditRequest(u, pid, bid, text) == EditMessage(u, bid, text)

NextPaths ==
  \/ \E u \in Users, pid \in ConvTargets \cup {0}, bid \in ConvTargets \cup {0} :
        LeaveRequest(u, pid, bid)
  \/ \E u \in Users, pid \in MsgTargets \cup {0}, bid \in MsgTargets \cup {0},
        x \in EditTexts : EditRequest(u, pid, bid, x)
  \/ \E u \in Users, m \in MsgTargets, t \in Tokens : HttpReact(u, m, t)
  \/ \E u \in Users, m \in MsgTargets, t \in Tokens : HttpUnreact(u, m, t)

\* HTTP requests on a stored message and its conversation
SpecPaths == InitAccess /\ [][NextPaths]_vars

\* ------------------------------------------------------------------ claims
\* user u has an entry with isActive = TRUE in document doc
HasActiveEntry(doc, u) ==
  \E i \in DOMAIN doc.participants :
      doc.participants[i].user = u /\ doc.participants[i].isActive = TRUE

\* request p arrives in this step
Arrives(p) == req[p].pc = "idle" /\ req'[p].pc # "idle"

\* request p runs to its end in this step, with success
Completes(p) ==
  req[p].pc # "done" /\ req'[p].pc = "done" /\ req'[p].status = "ok"

Succeeded(p) == req[p].pc = "done" /\ req[p].status = "ok"

\* C1: a send by a user without an active participant entry, or to a
\* conversation that does not exist, is answered with NotFound / Forbidden
\* (an error event to the requesting socket, for a socket send), and it
\* creates no message, leaves the conversations as they are and emits no
\* message:new, message:sent or notification:new event.
C1_RejectedSendChangesNothing ==
  [][\A p \in Procs :
       (/\ Arrives(p)
        /\ \/ req'[p].conv \notin DOMAIN conversations
           \/ ~HasActiveEntry(conversations[req'[p].conv], req'[p].user))
       => /\ req'[p].pc = "done"
          /\ req'[p].status =
               IF req'[p].conv \notin DOMAIN conversations
               THEN "NotFound" ELSE "Forbidden"
          /\ req'[p].msg = 0
          /\ UNCHANGED <<conversations, messages, nextMsg>>
          /\ \A e \in emitted' \ emitted :
               e.ev = "error" /\ e.rcpt = {req'[p].sock}
          /\ req'[p].kind = "sock" =>
               \E e \in emitted' :
                  /\ e.ev = "error" /\ e.rcpt = {req'[p].sock}
                  /\ e.reason \in {"Conversation not found",
                                   "Not a participant of this conversation"}]_vars

\* a former participant's socket send was refused, next to one refused
\* for a conversation that does not exist
C1_Witness ==
  \E p \in Procs :
     /\ req[p].pc = "done" /\ req[p].status = "Forbidden" /\ req[p].kind = "sock"
     /\ req[p].conv \in DOMAIN conversations
     /\ \E i \in DOMAIN conversations[req[p].conv].participants :
           /\ conversations[req[p].conv].participants[i].user = req[p].user
           /\ ~conversations[req[p].conv].participants[i].isActive
     /\ ErrorEvent(req[p].sock, "Not a participant of this conversation") \in emitted

\* C2: after a successful send that nothing else interleaved with, the
\* unread counter of every other user with an active entry is exactly one
\* higher than when the send loaded the conversation, and every other
\* counter is unchanged.
C2_UnreadPlusOne ==
  \A p \in Procs :
     (Succeeded(p) /\ req[p].touched = {}) =>
        \A u \in Users :
           conversations[req[p].conv].unreadCount[u] =
              req[p].doc0.unreadCount[u] +
                (IF u # req[p].user /\ HasActiveEntry(req[p].doc0, u) THEN 1 ELSE 0)

\* C3: after a successful send that no other send interleaved with, the
\* conversation's lastMessage is the message this send persisted, and that
\* message has the conversation, the sender, the type and the content of
\* the request.
C3_LastMessageIsTheSentOne ==
  \A p \in Procs :
     (Succeeded(p) /\ "send" \notin req[p].touched) =>
        /\ conversations[req[p].conv].lastMessage = req[p].msg
        /\ req[p].msg \in DOMAIN messages
        /\ messages[req[p].msg].conversation = req[p].conv
        /\ messages[req[p].msg].sender = req[p].user
        /\ messages[req[p].msg].type = req[p].type
        /\ messages[req[p].msg].content = req[p].content

\* the second of two successful sends to one conversation
C3_Witness ==
  \E p, q \in Procs :
     /\ p # q /\ Succeeded(p) /\ Succeeded(q) /\ req[p].conv = req[q].conv
     /\ "send" \notin req[p].touched /\ "send" \in req[q].touched
     /\ conversations[req[p].conv].lastMessage = req[p].msg

\* C4: a send whose message save fails leaves the conversation as the send
\* loaded it (lastMessage, lastMessageAt and unread counters), and in every
\* state a conversation's lastMessage is unset or names a persisted message.
C4_PersistFailureLeavesNoTrace ==
  /\ \A c \in DOMAIN conversations :
        conversations[c].lastMessage = 0
        \/ conversations[c].lastMessage \in DOMAIN messages
  /\ \A p \in Procs :
        (/\ req[p].pc = "done" /\ req[p].status = "failed"
         /\ req[p].msg \notin DOMAIN messages
         /\ req[p].touched = {})
        => conversations[req[p].conv] = req[p].doc0

\* a send failed at the save of its message, after an earlier send had set
\* lastMessage
C4_Witness ==
  \E p \in Procs :
     /\ req[p].pc = "done" /\ req[p].status = "failed"
     /\ req[p].msg # 0 /\ req[p].msg \notin DOMAIN messages
     /\ req[p].touched = {}
     /\ conversations[req[p].conv].lastMessage # 0

\* C7: the connection of a successful socket send is sent message:sent with
\* the persisted message and the request's clientId, and is no receiver of
\* the message:new event of that message.
C7_SenderGetsSentNotNew ==
  \A p \in Procs :
     (Succeeded(p) /\ req[p].kind = "sock") =>
        /\ \E e \in emitted :
              /\ e.ev = "message:sent" /\ e.rcpt = {req[p].sock}
              /\ e.msg = req[p].msg /\ e.clientId = req[p].clientId
        /\ \A e \in emitted :
              (e.ev = "message:new" /\ e.msg = req[p].msg) => req[p].sock \notin e.rcpt

\* the sender had joined the room, and the room had another member
C7_Witness ==
  \E p \in Procs :
     /\ Succeeded(p) /\ req[p].kind = "sock"
     /\ req[p].conv \in sockets[req[p].sock].rooms
     /\ \E e \in emitted :
           e.ev = "message:new" /\ e.msg = req[p].msg /\ e.rcpt # {}

\* C5: when a socket send completes, every other user who is an active
\* participant (in the loaded document and in the store) is covered: a
\* registered user's connection is a receiver of the message:new event, and
\* for an unregistered user a notification:new to the personal channel is
\* emitted.
C5_EveryParticipantCovered ==
  [][\A p \in Procs :
       (Completes(p) /\ req'[p].kind = "sock") =>
          \A u \in Users \ {req'[p].user} :
             (/\ HasActiveEntry(req'[p].doc0, u)
              /\ HasActiveEntry(conversations'[req'[p].conv], u))
             => IF u \in DOMAIN connectedUsers
                THEN \E e \in emitted' :
                        /\ e.ev = "message:new" /\ e.msg = req'[p].msg
                        /\ connectedUsers[u] \in e.rcpt
                ELSE \E e \in emitted' :
                        /\ e.ev = "notification:new" /\ e.msg = req'[p].msg
                        /\ e.user = u]_vars

\* C6: when a send of either entry point completes, the message:new event
\* of its message has been emitted to the conversation's room, and a
\* notification:new for every other active participant who is not
\* registered.
C6_HttpSendFansOut ==
  [][\A p \in Procs :
       Completes(p) =>
          /\ \E e \in emitted' :
                /\ e.ev = "message:new" /\ e.msg = req'[p].msg
                /\ RoomOf(req'[p].conv) \ {req'[p].sock} \subseteq e.rcpt
          /\ \A u \in Users \ {req'[p].user} :
                (HasActiveEntry(req'[p].doc0, u) /\ u \notin DOMAIN connectedUsers)
                => \E e \in emitted' :
                      /\ e.ev = "notification:new" /\ e.msg = req'[p].msg
                      /\ e.user = u]_vars

\* C9: no connection of a user whose entry was inactive when the send
\* loaded the conversation is a receiver of that send's message:new event.
C9_InactiveExcludedFromFanOut ==
  [][\A p \in Procs :
       Completes(p) =>
          \A e \in emitted' \ emitted :
             e.ev = "message:new" =>
                \A s \in e.rcpt : HasActiveEntry(req'[p].doc0, sockets[s].user)]_vars

\* C10: when two sends of different senders to one conversation have both
\* succeeded and nothing but the two wrote the conversation meanwhile, the
\* counter of a third active participant is 2 above the lower of the two
\* values the sends loaded.
C10_NoLostIncrement ==
  \A p, q \in Procs :
     (/\ p # q /\ Succeeded(p) /\ Succeeded(q)
      /\ req[p].conv = req[q].conv /\ req[p].user # req[q].user
      /\ "other" \notin req[p].touched \cup req[q].touched)
     => \A u \in Users \ {req[p].user, req[q].user} :
           (HasActiveEntry(req[p].doc0, u) /\ HasActiveEntry(req[q].doc0, u))
           => LET a == req[p].doc0.unreadCount[u]
                  b == req[q].doc0.unreadCount[u]
              IN conversations[req[p].conv].unreadCount[u] =
                    (IF a <= b THEN a ELSE b) + 2

\* the notification:new of message m for user u found no connection
Missed(u, m) ==
  \E e \in emitted :
     e.ev = "notification:new" /\ e.user = u /\ e.msg = m /\ e.rcpt = {}

\* a connection of user u was sent the notification:new of message m
Notified(u, m) ==
  \E e \in emitted :
     e.ev = "notification:new" /\ e.user = u /\ e.msg = m /\ e.rcpt # {}

\* C8: once a user whose notification:new found no connection is connected
\* again, a connection of that user is in the end sent that notification,
\* unless the user has gone before.
C8_MissedNotificationDelivered ==
  \A u \in Users : \A m \in 1..Cardinality(Procs) :
     (Missed(u, m) /\ UserRoom(u) # {}) ~> (Notified(u, m) \/ UserRoom(u) = {})

\* C11: a send whose message is persisted is never failed by a later step:
\* it does not end as failed, and its socket is sent no error event
\* 'Failed to send message'.
C11_LaterFailureDoesNotFailSend ==
  \A p \in Procs :
     (req[p].kind \in {"sock", "http"} /\ req[p].msg \in DOMAIN messages) =>
        /\ req[p].status # "failed"
        /\ req[p].kind = "sock" =>
              ErrorEvent(req[p].sock, "Failed to send message") \notin emitted

\* C12: right after a request added user U to a conversation, U passes the
\* membership check (an entry of U with isActive = TRUE), also when U had an
\* inactive entry before and when the request is a repetition; and right
\* after U was removed or left, U does not pass it.
C12_AddThenMemberRemoveThenNot ==
  /\ [](\A p \in Procs :
          (req[p].kind = "add" /\ req[p].pc = "done" /\ req[p].touched = {}) =>
             \A i \in DOMAIN req[p].parts :
                HasActiveEntry(conversations[req[p].conv], req[p].parts[i]))
  /\ [][\A c \in ConvTargets, t \in Users :
          ((\E u \in Users : RemoveParticipant(u, c, t)) \/ LeaveConversation(t, c))
          => ~HasActiveEntry(conversations'[c], t)]_vars

\* C13: no step changes content.text, isEdited or editedAt of a message
\* that has isDeleted = TRUE.
C13_DeletedMessageNotEdited ==
  [][\A m \in DOMAIN messages :
       messages[m].isDeleted =>
          /\ messages'[m].content.text = messages[m].content.text
          /\ messages'[m].isEdited = messages[m].isEdited
          /\ messages'[m].editedAt = messages[m].editedAt]_vars

\* C14: no step changes the reaction mapping of a message that has
\* isDeleted = TRUE.
C14_DeletedMessageReactionsFrozen ==
  [][\A m \in DOMAIN messages :
       messages[m].isDeleted =>
          messages'[m].reactions = messages[m].reactions]_vars

\* C15: displayContent of a deleted message is the placeholder, whatever
\* its type and content, and displayContent of a text or system message
\* that is not deleted is its content.text.
C15_DisplayContent ==
  \A m \in DOMAIN messages :
     /\ messages[m].isDeleted => displayContent(messages[m]) = Placeholder
     /\ (~messages[m].isDeleted /\ messages[m].type \in {"text", "system"}) =>
           displayContent(messages[m]) = messages[m].content.text

\* a deleted message that is no text message, with content and reactions
C15_Witness ==
  \E m \in DOMAIN messages :
     /\ messages[m].isDeleted /\ messages[m].type = "image"
     /\ messages[m].content.media # "" /\ DOMAIN messages[m].reactions # {}

\* C16: no user is twice in the list of a reaction token, and addReaction
\* of a user who is in the token's list returns the message unchanged.
C16_AddReactionIdempotent ==
  \A m \in DOMAIN messages :
     /\ \A t \in DOMAIN messages[m].reactions :
           \A i, j \in 1..Len(messages[m].reactions[t]) :
              messages[m].reactions[t][i] = messages[m].reactions[t][j] => i = j
     /\ \A t \in DOMAIN messages[m].reactions :
           \A i \in 1..Len(messages[m].reactions[t]) :
              addReaction(messages[m], t, messages[m].reactions[t][i]) = messages[m]

\* two users are in the list of one token, a third in that of another
C16_Witness ==
  \E m \in DOMAIN messages :
     /\ DOMAIN messages[m].reactions = Tokens
     /\ \E t \in Tokens : Len(messages[m].reactions[t]) = 2

\* C17: no token is stored with an empty list, and removeReaction(m, t, U)
\* takes U, and nobody else, out of the list of t, leaves every other token
\* as it is, and drops t when nobody is left.
C17_RemoveReactionExact ==
  \A m \in DOMAIN messages :
     LET r == messages[m].reactions IN
     /\ \A t \in DOMAIN r : r[t] # <<>>
     /\ \A t \in Tokens, u \in Users :
           LET r2 == removeReaction(messages[m], t, u).reactions
               rest == IF t \in DOMAIN r
                       THEN SelectSeq(r[t], LAMBDA id : id # u) ELSE <<>>
           IN /\ removeReaction(messages[m], t, u) = [messages[m] EXCEPT !.reactions = r2]
              /\ DOMAIN r2 = IF rest = <<>> THEN DOMAIN r \ {t} ELSE DOMAIN r
              /\ \A x \in DOMAIN r2 : r2[x] = IF x = t THEN rest ELSE r[x]

\* alice and then bob reacted with one token, beside another token: taking
\* alice out leaves bob, and taking bob out as well drops the token
C17_Witness ==
  \E m \in DOMAIN messages :
     /\ DOMAIN messages[m].reactions = Tokens
     /\ \E t \in Tokens :
           /\ messages[m].reactions[t] = <<"alice", "bob">>
           /\ removeReaction(messages[m], t, "alice").reactions[t] = <<"bob">>
           /\ t \notin DOMAIN removeReaction(
                   removeReaction(messages[m], t, "alice"), t, "bob").reactions

\* C18: readBy and deliveredTo of a message hold at most one entry of a
\* user, in every state and under every interleaving of the receipt events
\* and the mark-conversation-read requests.
C18_OneReceiptPerUser ==
  \A m \in DOMAIN messages :
     /\ \A i, j \in 1..Len(messages[m].readBy) :
           messages[m].readBy[i] = messages[m].readBy[j] => i = j
     /\ \A i, j \in 1..Len(messages[m].deliveredTo) :
           messages[m].deliveredTo[i] = messages[m].deliveredTo[j] => i = j

\* the target conversations that hold a copy made by forward request p
Copies(p) ==
  {c \in DOMAIN conversations :
     \E m \in DOMAIN messages :
        /\ messages[m].forwardedFrom.message = req[p].msg
        /\ messages[m].sender = req[p].user
        /\ messages[m].conversation = c}

\* C19: when a forward request has ended, with success or with an error,
\* copies exist in every conversation the request named or in none.
C19_ForwardAllOrNothing ==
  \A p \in Procs :
     (req[p].kind = "forward" /\ req[p].pc = "done") =>
        \/ Copies(p) = {}
        \/ Copies(p) = {req[p].ids[i] : i \in 1..Len(req[p].ids)}

\* C20: a forwarded message is created in a conversation only when the
\* forwarding user has an entry of their own there with isActive = TRUE.
C20_ForwardNeedsOwnActiveEntry ==
  [][\A m \in DOMAIN messages' \ DOMAIN messages :
       messages'[m].forwardedFrom.message # 0 =>
          HasActiveEntry(conversations[messages'[m].conversation],
                         messages'[m].sender)]_vars

\* C21: an edit request is accepted only from the sender of a text message,
\* and a step that edits a message replaces content.text, sets isEdited and
\* editedAt, and leaves every other field of the message as it was.
C21_EditOnlyBySenderOfText ==
  /\ [](\A u \in Users, m \in DOMAIN messages, x \in EditTexts :
          ENABLED EditMessage(u, m, x) =>
             messages[m].sender = u /\ messages[m].type = "text")
  /\ [][\A m \in DOMAIN messages :
          (\/ messages'[m].content.text # messages[m].content.text
           \/ messages'[m].isEdited # messages[m].isEdited
           \/ messages'[m].editedAt # messages[m].editedAt)
          => /\ messages[m].type = "text"
             /\ messages'[m].content.text \in EditTexts
             /\ messages'[m] =
                   [messages[m] EXCEPT !.content.text = messages'[m].content.text,
                                       !.isEdited = TRUE, !.editedAt = clock]]_vars

\* bob's text message, with a reaction, was edited, and the other
\* participants are refused
C21_Witness ==
  \E m \in DOMAIN messages :
     /\ messages[m].sender = "bob" /\ messages[m].isEdited
     /\ messages[m].content.text \in EditTexts /\ messages[m].editedAt = clock
     /\ DOMAIN messages[m].reactions # {}
     /\ \A x \in EditTexts : ~ENABLED EditMessage("alice", m, x)

\* user u has an entry with the role admin in document doc
HasAdminEntry(doc, u) ==
  \E i \in DOMAIN doc.participants :
     doc.participants[i].user = u /\ doc.participants[i].role = "admin"

\* C22: a delete request is accepted only from the sender of the message
\* or an admin of its conversation; the step that deletes a message sets
\* isDeleted and deletedBy (to such a user) and leaves type, content and
\* every other field; and isDeleted never goes back to FALSE.
C22_DeleteBySenderOrAdminIsSoft ==
  /\ [](\A u \in Users, m \in DOMAIN messages :
          ENABLED DeleteMessage(u, m) =>
             \/ messages[m].sender = u
             \/ HasAdminEntry(conversations[messages[m].conversation], u))
  /\ [][\A m \in DOMAIN messages :
          /\ messages[m].isDeleted => messages'[m].isDeleted
          /\ (~messages[m].isDeleted /\ messages'[m].isDeleted) =>
                /\ \/ messages'[m].deletedBy = messages[m].sender
                   \/ HasAdminEntry(conversations[messages[m].conversation],
                                    messages'[m].deletedBy)
                /\ messages'[m] =
                      [messages[m] EXCEPT !.isDeleted = TRUE,
                                          !.deletedBy = messages'[m].deletedBy]]_vars

\* bob's message, which has content, was deleted by the admin, and carol
\* is refused
C22_Witness ==
  \E m \in DOMAIN messages :
     /\ messages[m].sender = "bob" /\ messages[m].isDeleted
     /\ messages[m].deletedBy = "alice"
     /\ messages[m].content = ContentOf(messages[m].type)
     /\ ~ENABLED DeleteMessage("carol", m)

\* an admin entry of another user than u is active in document doc
OtherActiveAdmin(doc, u) ==
  \E i \in DOMAIN doc.participants :
     /\ doc.participants[i].user # u
     /\ doc.participants[i].role = "admin" /\ doc.participants[i].isActive

\* C23: in a group, the leave request of an admin is refused unless another
\* admin is an active participant, and no step makes an admin's entry
\* inactive while no other admin is active.
C23_OnlyAdminCannotLeave ==
  /\ [](\A c \in DOMAIN conversations, u \in Users :
          (/\ conversations[c].type = "group"
           /\ HasAdminEntry(conversations[c], u)
           /\ ~OtherActiveAdmin(conversations[c], u))
          => ~ENABLED LeaveConversation(u, c))
  /\ [][\A c \in DOMAIN conversations :
          conversations[c].type = "group" =>
             \A i \in DOMAIN conversations[c].participants :
                (/\ conversations[c].participants[i].role = "admin"
                 /\ conversations[c].participants[i].isActive
                 /\ ~conversations'[c].participants[i].isActive)
                => OtherActiveAdmin(conversations'[c],
                                    conversations[c].participants[i].user)]_vars

\* a group of three whose members may leave, and one has, while the leave
\* of alice, the only admin, is refused
C23_Witness ==
  \E c \in DOMAIN conversations :
     /\ conversations[c].type = "group"
     /\ Len(conversations[c].participants) = 3
     /\ HasActiveEntry(conversations[c], "alice")
     /\ HasAdminEntry(conversations[c], "alice")
     /\ ~HasActiveEntry(conversations[c], "carol")
     /\ ENABLED LeaveConversation("bob", c)
     /\ ~ENABLED LeaveConversation("alice", c)

\* C24: a direct conversation has exactly two participant entries, in every
\* state.
C24_DirectHasTwoSlots ==
  \A c \in DOMAIN conversations :
     conversations[c].type = "direct" => Len(conversations[c].participants) = 2

\* C25: a connection registers its user under its own handle, and the
\* disconnect of a connection that is not the registered handle of its
\* user leaves the user's registry entry and durable flag as they are.
C25_RegistryIsPerConnection ==
  [][/\ \A s \in DOMAIN sockets' \ DOMAIN sockets :
          /\ sockets'[s].user \in DOMAIN connectedUsers'
          /\ connectedUsers'[sockets'[s].user] = s
     /\ \A s \in DOMAIN sockets :
          (/\ sockets[s].live /\ ~sockets'[s].live
           /\ sockets[s].user \in DOMAIN connectedUsers
           /\ connectedUsers[sockets[s].user] # s)
          => /\ sockets[s].user \in DOMAIN connectedUsers'
             /\ connectedUsers'[sockets[s].user] = connectedUsers[sockets[s].user]
             /\ isOnline'[sockets[s].user] = isOnline[sockets[s].user]]_vars

\* C26: a step that changes the durable flag of a user comes with the
\* matching user:online / user:offline event to the live connections of
\* the other users, and a user:offline is emitted only in a step that
\* leaves the flag FALSE.
C26_PresenceTransitionsBroadcast ==
  [][/\ \A u \in Users :
          isOnline'[u] # isOnline[u] =>
             \E e \in emitted' :
                /\ e.ev = IF isOnline'[u] THEN "user:online" ELSE "user:offline"
                /\ e.user = u
                /\ {s \in DOMAIN sockets' :
                      sockets'[s].live /\ sockets'[s].user # u} \subseteq e.rcpt
     /\ \A e \in emitted' \ emitted :
          e.ev = "user:offline" => ~isOnline'[e.user]]_vars

\* C27: a connect whose durable presence write fails still ends with the
\* user connected and registered, and a disconnect whose durable write
\* fails still ends with the registry entry removed.
C27_PresenceWriteBestEffort ==
  /\ \A u \in Users :
        Len(sockets) < MaxSockets =>
           ENABLED (/\ Connect(u, FALSE)
                    /\ u \in DOMAIN connectedUsers'
                    /\ \E s \in DOMAIN sockets' \ DOMAIN sockets :
                          sockets'[s].user = u /\ sockets'[s].live)
  /\ \A s \in LiveSockets :
        ENABLED (/\ Disconnect(s, FALSE)
                 /\ ~sockets'[s].live
                 /\ sockets[s].user \notin DOMAIN connectedUsers')

Denied(s) ==
  \E e \in emitted' : e.ev = "error" /\ e.rcpt = {s} /\ e.reason # ""

\* C29: whenever a connection's user is no active participant of a
\* conversation, each of typing:start, typing:stop and call:initiate for
\* that conversation ends with an error event sent to that connection.
C29_RefusalsAreExplicit ==
  \A s \in LiveSockets, c \in DOMAIN conversations :
     ~IsParticipant(conversations[c], sockets[s].user) =>
        /\ ENABLED (CallInitiate(s, c) /\ Denied(s))
        /\ ENABLED (TypingStart(s, c) /\ Denied(s))
        /\ ENABLED (TypingStop(s, c) /\ Denied(s))

\* C30: unread counters have a floor at 0: after updateUnreadCount with any
\* integer count, negative ones included, and after resetUnreadCount, no
\* stored counter of any conversation and user is below 0.
C30_UnreadFloorAtZero ==
  \A c \in DOMAIN conversations, u \in Users :
     conversations[c].unreadCount[u] >= 0

\* C31: the block relation is symmetric on both sides: in every state, b is
\* listed in a's blockedUsers exactly when a is listed in b's blockedBy.
C31_BlockRelationSymmetric ==
  \A a \in Users, b \in Users :
     isBlocked(userDocs[a], b) <=> isBlockedBy(userDocs[b], a)

MuteEntries(doc, u) == {i \in DOMAIN doc.mutedBy : doc.mutedBy[i].user = u}

\* C33: a mute without a duration reads as muted at every time until it is
\* unmuted; a mute with a duration reads as muted exactly while the time is
\* before its expiry; isUserMuted evicts only entries whose expiry has
\* passed; and mutedBy holds at most one entry per user.
C33_MuteToggleWithExpiry ==
  \A c \in DOMAIN conversations, u \in Users :
     LET doc == conversations[c]
         read == isUserMuted(doc, u, clock)
     IN
     /\ Cardinality(MuteEntries(doc, u)) <= 1
     /\ \A i \in MuteEntries(doc, u) :
          /\ doc.mutedBy[i].mutedUntil = NoDate => read.muted
          /\ doc.mutedBy[i].mutedUntil # NoDate =>
                (read.muted <=> clock < doc.mutedBy[i].mutedUntil)
          /\ read.doc # doc =>
                (doc.mutedBy[i].mutedUntil # NoDate
                   /\ doc.mutedBy[i].mutedUntil <= clock)

\* C34: with no handler in flight and no failed write, the three views of
\* presence agree for every user: the user has a live connection, exactly
\* when the user has an entry in the connected-user registry, exactly when
\* the user's durable isOnline flag is true.
C34_PresenceViewsAgree ==
  \A u \in Users :
     /\ (UserRoom(u) # {}) <=> (u \in DOMAIN connectedUsers)
     /\ (UserRoom(u) # {}) <=> isOnline[u]

\* the reaction tokens of message m that list user u
ReactedWith(m, u) == {t \in DOMAIN m.reactions : Includes(m.reactions[t], u)}

\* C35: every step that changes what a message records for a user (the
\* user's reactions, the user's readBy entry or the user's deliveredTo
\* entry) is taken while that user is an active participant of the
\* message's conversation.
C35_MessageChangedOnlyForParticipants ==
  [][\A m \in DOMAIN messages, u \in Users :
       (\/ ReactedWith(messages'[m], u) # ReactedWith(messages[m], u)
        \/ Includes(messages'[m].readBy, u) # Includes(messages[m].readBy, u)
        \/ Includes(messages'[m].deliveredTo, u) # Includes(messages[m].deliveredTo, u))
       => HasActiveEntry(conversations[messages[m].conversation], u)]_vars

\* the users listed in the participants of document doc
ParticipantUsers(doc) == {doc.participants[i].user : i \in DOMAIN doc.participants}

\* the stored direct conversations whose participants are a and b
DirectOf(a, b) ==
  {c \in DOMAIN conversations :
     conversations[c].type = "direct" /\ ParticipantUsers(conversations[c]) = {a, b}}

\* C36: at most one direct conversation is stored per unordered pair of
\* users, and a create request that finishes after another one of the same
\* pair was stored is answered with the stored one.
C36_OneDirectPerPair ==
  \A a \in Users : \A b \in Users \ {a} : Cardinality(DirectOf(a, b)) <= 1

\* C37: every stored group conversation has a participant entry with role
\* admin that is active, whatever create, add-participants,
\* remove-participant and leave requests have been served.
C37_GroupKeepsActiveAdmin ==
  \A c \in DOMAIN conversations :
     conversations[c].type = "group" =>
        \E i \in DOMAIN conversations[c].participants :
           /\ conversations[c].participants[i].role = "admin"
           /\ conversations[c].participants[i].isActive

\* a group that has served an add request and a removal or a leave
C37_Witness ==
  \E c \in DOMAIN conversations, p \in Procs :
     /\ conversations[c].type = "group"
     /\ req[p].pc = "done" /\ req[p].kind = "add" /\ req[p].conv = c
     /\ \E i \in DOMAIN conversations[c].participants :
           ~conversations[c].participants[i].isActive
     /\ \E i \in DOMAIN conversations[c].participants :
           /\ conversations[c].participants[i].role = "admin"
           /\ conversations[c].participants[i].isActive

\* C38: once a delete-conversation request has completed, the conversation
\* it named is no longer stored and no stored message refers to it, also
\* when a send into that conversation had loaded it before the delete began.
C38_CascadeLeavesNoOrphans ==
  \A p \in Procs :
     (req[p].kind = "delete" /\ Succeeded(p)) =>
        /\ req[p].conv \notin DOMAIN conversations
        /\ \A m \in DOMAIN messages : messages[m].conversation # req[p].conv

CallEvents == {"call:incoming", "call:accepted", "call:rejected", "call:ended"}

\* C39: every step that emits a call event about a call of conversation c
\* is taken for a connection whose user is an active participant of c, and
\* the event goes only to connections of active participants of c.
C39_CallSignallingStaysInside ==
  [][\A e \in emitted' \ emitted :
       e.ev \in CallEvents =>
          /\ e.conv \in DOMAIN conversations
          /\ HasActiveEntry(conversations[e.conv], e.user)
          /\ \A s \in e.rcpt :
                HasActiveEntry(conversations[e.conv], sockets[s].user)]_vars

\* C40: a leave request of an active participant (who may leave) with path
\* id x and no body id is carried out on conversation x, and an edit request
\* of the sender of text message m with path id m and no body id is carried
\* out on m; a body id never makes a request with another path id change
\* the conversation or the message the body names.
C40_PathIdIsWhatIsActedOn ==
  /\ \A u \in Users, x \in DOMAIN conversations :
        (HasActiveEntry(conversations[x], u) /\ ~HasAdminEntry(conversations[x], u))
        => ENABLED (LeaveRequest(u, x, 0) /\ ~HasActiveEntry(conversations'[x], u))
  /\ \A u \in Users, m \in DOMAIN messages :
        (messages[m].sender = u /\ messages[m].type = "text")
        => ENABLED (EditRequest(u, m, 0, "new") /\ messages'[m].isEdited)
  /\ \A u \in Users, x \in ConvTargets, y \in DOMAIN conversations :
        x # y => ~ENABLED (LeaveRequest(u, x, y) /\ conversations'[y] # conversations[y])
  /\ \A u \in Users, x \in MsgTargets, y \in DOMAIN messages :
        x # y => ~ENABLED (EditRequest(u, x, y, "new") /\ messages'[y] # messages[y])

====
